---- MODULE Spec2Model ----
(***************************************************************************)
(* Model of flame's image transform pipeline (flame/transforms): the       *)
(* Transform classes Resize, CenterCrop, ConvertImageDType, Normalize and  *)
(* ToTensor, and the Transformer that chains them (add, make_image,        *)
(* update_image, make_tensor).                                             *)
(*                                                                         *)
(* A cv::Mat is a header (buffer id, region, size) over a reference        *)
(* counted pixel buffer, so that copies of a header share storage as they  *)
(* do in OpenCV.  Pixel values are exact rationals <<n, d>>; the rounding  *)
(* of floating point storage is abstracted away, the rounding and          *)
(* saturation of integral storage is modelled.  Every method of the        *)
(* pipeline is noexcept: a cv::Exception raised by an OpenCV call ends the *)
(* process (std::terminate), modelled by the flag ok = FALSE.              *)
(***************************************************************************)
EXTENDS Integers, Sequences, FiniteSets, TLC

(***************************************************************************)
(* Bounds of the model.                                                    *)
(***************************************************************************)
MaxChain == 3        \* longest chain built with Transformer::add
InRows == 2          \* rows of the caller's input image
InCols == 3          \* columns of the caller's input image
MaxSide == 3         \* largest side r of the Resize(r) of a resize-and-crop chain
MaxBlocks == 2       \* largest entry of layer_sizes
MaxLoop == 4         \* blocks after which a loop of make_layer counts as endless
MaxInputs == 3       \* most tensors in the vector handed to SlsBlock::forward

\* The largest height and width of a tensor fed to a residual block.
MaxHeight == 3

(***************************************************************************)
(* OpenCV depth codes and c10 scalar types named by the source.            *)
(***************************************************************************)
CV_8U == 0
CV_8S == 1
CV_16U == 2
CV_16S == 3
CV_32S == 4
CV_32F == 5
CV_64F == 6
CV_16F == 7

Depths == {CV_8U, CV_8S, CV_16U, CV_16S, CV_32S, CV_32F, CV_64F, CV_16F}

IntegralDepths == {CV_8U, CV_8S, CV_16U, CV_16S, CV_32S}

ScalarTypes ==
  {"kUInt8", "kInt8", "kInt16", "kInt32", "kInt64",
   "kFloat16", "kFloat32", "kFloat64", "kBool"}

\* cv::Mat::type(): the depth in the low three bits, channels - 1 above them.
MatType(depth, cn) == depth + (cn - 1) * 8

(***************************************************************************)
(* Exact rational pixel values.                                            *)
(***************************************************************************)
Abs(x) == IF x < 0 THEN 0 - x ELSE x

RECURSIVE GCD(_, _)
GCD(a, b) == IF b = 0 THEN a ELSE GCD(b, a % b)

Rat(n, d) ==
  LET s == IF d < 0 THEN 0 - 1 ELSE 1
      g == GCD(Abs(n), Abs(d))
  IN  IF n = 0 THEN <<0, 1>> ELSE <<(s * n) \div g, (s * d) \div g>>

RInt(n) == <<n, 1>>

RAdd(p, q) == Rat(p[1] * q[2] + q[1] * p[2], p[2] * q[2])

RSub(p, q) == Rat(p[1] * q[2] - q[1] * p[2], p[2] * q[2])

RMul(p, q) == Rat(p[1] * q[1], p[2] * q[2])

\* C++ integer division truncates toward zero.
TruncDiv(a, b) == IF a >= 0 THEN a \div b ELSE 0 - ((0 - a) \div b)

\* cvRound: round to nearest, ties to even.
CvRound(p) ==
  LET fl == p[1] \div p[2]
      r2 == 2 * (p[1] - fl * p[2])
  IN  IF r2 < p[2] THEN fl
      ELSE IF r2 > p[2] THEN fl + 1
      ELSE IF fl % 2 = 0 THEN fl ELSE fl + 1

DepthMin(depth) ==
  CASE depth = CV_8U -> 0
    [] depth = CV_8S -> 0 - 128
    [] depth = CV_16U -> 0
    [] depth = CV_16S -> 0 - 32768
    [] OTHER -> 0 - 2147483647 - 1

DepthMax(depth) ==
  CASE depth = CV_8U -> 255
    [] depth = CV_8S -> 127
    [] depth = CV_16U -> 65535
    [] depth = CV_16S -> 32767
    [] OTHER -> 2147483647

\* cv::saturate_cast to the storage type: integral storage rounds and clamps.
SaturateCast(p, depth) ==
  IF depth \in IntegralDepths
  THEN LET r == CvRound(p)
       IN  RInt(IF r < DepthMin(depth) THEN DepthMin(depth)
                ELSE IF r > DepthMax(depth) THEN DepthMax(depth) ELSE r)
  ELSE p

(***************************************************************************)
(* cv::Mat: a header over a shared pixel buffer.                           *)
(*   buffer  [depth, cn, rows, cols, data]  data: row-major sequence       *)
(*   header  [buf, r0, c0, rows, cols]      region of buffer heap[buf]     *)
(* heap is the sequence of the buffers allocated so far.  A buffer also    *)
(* carries chan, which names the colour each channel position holds: a     *)
(* cv::Mat has no such field, it records what the pixel data means.        *)
(***************************************************************************)
MatDepth(heap, m) == heap[m.buf].depth

MatChannels(heap, m) == heap[m.buf].cn

\* Index into the buffer's data of element (r, c, ch) of the region m.
DataIndex(heap, m, r, c, ch) ==
  ((m.r0 + r) * heap[m.buf].cols + (m.c0 + c)) * heap[m.buf].cn + ch + 1

\* Position k (0-based, row-major over rows, cols, channels) as <<r, c, ch>>.
Position(k, cols, cn) == <<k \div (cols * cn), (k \div cn) % cols, k % cn>>

\* The image a header denotes: its type, its size and its pixels, row-major.
Image(heap, m) ==
  LET cn == MatChannels(heap, m)
  IN  [depth |-> MatDepth(heap, m), cn |-> cn, rows |-> m.rows, cols |-> m.cols,
       chan |-> heap[m.buf].chan,
       pix |-> [k \in 1..(m.rows * m.cols * cn) |->
                  LET p == Position(k - 1, m.cols, cn)
                  IN  heap[m.buf].data[DataIndex(heap, m, p[1], p[2], p[3])]]]

\* Element (r, c, ch) of an image value.
PixAt(im, r, c, ch) == im.pix[(r * im.cols + c) * im.cn + ch + 1]

\* The elements of a buffer, stored one by one (a sequence given by its
\* elements, so that each is computed once).
Stored(pix) == pix \o <<>>

\* cv::Mat::create / allocation of a new buffer holding the image im.
NewMat(heap, im) ==
  [heap |-> Append(heap, [depth |-> im.depth, cn |-> im.cn, rows |-> im.rows,
                          cols |-> im.cols, chan |-> im.chan,
                          data |-> Stored(im.pix)]),
   m |-> [buf |-> Len(heap) + 1, r0 |-> 0, c0 |-> 0,
          rows |-> im.rows, cols |-> im.cols],
   ok |-> TRUE]

\* An operation writing its result through the header m into m's own buffer
\* (same size, same type): only the elements of the region change.
StoreInto(heap, m, pix) ==
  LET b == heap[m.buf]
      inRegion(r, c) == /\ r >= m.r0 /\ r < m.r0 + m.rows
                        /\ c >= m.c0 /\ c < m.c0 + m.cols
      new == [i \in 1..Len(b.data) |->
                LET p == Position(i - 1, b.cols, b.cn)
                IN  IF inRegion(p[1], p[2])
                    THEN pix[((p[1] - m.r0) * m.cols + (p[2] - m.c0)) * b.cn + p[3] + 1]
                    ELSE b.data[i]]
  IN  [heap EXCEPT ![m.buf].data = Stored(new)]

\* The process was ended by an exception escaping a noexcept method.
Terminate(heap, m) == [heap |-> heap, m |-> m, ok |-> FALSE]

Same(heap, m) == [heap |-> heap, m |-> m, ok |-> TRUE]

(***************************************************************************)
(* OpenCV primitives on image values.                                      *)
(***************************************************************************)
\* cv::Mat::convertTo(dst, depth, alpha).
ConvertTo(im, depth, alpha) ==
  [im EXCEPT !.depth = depth,
             !.pix = [k \in 1..Len(im.pix) |-> SaturateCast(RMul(im.pix[k], alpha), depth)]]

\* cv::cvtColor(src, dst, COLOR_BGR2RGB) accepts 3 or 4 channels of depth
\* 8U, 16U or 32F and raises cv::Exception otherwise.
CvtColorAccepts(im) == im.cn \in {3, 4} /\ im.depth \in {CV_8U, CV_16U, CV_32F}

\* The result has three channels: channel 0 and channel 2 are exchanged.
CvtColorBGR2RGB(im) ==
  [im EXCEPT !.cn = 3,
             !.chan = <<im.chan[3], im.chan[2], im.chan[1]>>,
             !.pix = [k \in 1..(im.rows * im.cols * 3) |->
                        LET p == Position(k - 1, im.cols, 3)
                        IN  PixAt(im, p[1], p[2], 2 - p[3])]]

\* cv::resize(src, dst, Size(w, h), 0, 0, INTER_LINEAR): bilinear sampling at
\* the pixel centres, clamped at the border, stored with saturate_cast.
LinearCoord(d, src, dst) ==
  LET num == (2 * d + 1) * src - dst
      den == 2 * dst
      fl == num \div den
  IN  IF fl < 0 THEN [i |-> 0, f |-> RInt(0)]
      ELSE IF fl >= src - 1 THEN [i |-> src - 1, f |-> RInt(0)]
      ELSE [i |-> fl, f |-> Rat(num - fl * den, den)]

CvResize(im, w, h) ==
  [im EXCEPT !.rows = h, !.cols = w,
     !.pix = [k \in 1..(h * w * im.cn) |->
       LET p == Position(k - 1, w, im.cn)
           y == LinearCoord(p[1], im.rows, h)
           x == LinearCoord(p[2], im.cols, w)
           y1 == IF y.i + 1 < im.rows THEN y.i + 1 ELSE y.i
           x1 == IF x.i + 1 < im.cols THEN x.i + 1 ELSE x.i
           one == RInt(1)
           top == RAdd(RMul(RSub(one, x.f), PixAt(im, y.i, x.i, p[3])),
                       RMul(x.f, PixAt(im, y.i, x1, p[3])))
           bot == RAdd(RMul(RSub(one, x.f), PixAt(im, y1, x.i, p[3])),
                       RMul(x.f, PixAt(im, y1, x1, p[3])))
       IN  SaturateCast(RAdd(RMul(RSub(one, y.f), top), RMul(y.f, bot)), im.depth)]]

\* cv::subtract(img, scalar, dst) and cv::divide(img, scalar, dst): channel c
\* uses component c of the scalar; the result is stored in img's own type.
SubtractScalar(im, s) ==
  [im EXCEPT !.pix = [k \in 1..Len(im.pix) |->
     SaturateCast(RSub(im.pix[k], s[((k - 1) % im.cn) + 1]), im.depth)]]

DivideScalar(im, s) ==
  [im EXCEPT !.pix = [k \in 1..Len(im.pix) |->
     LET q == s[((k - 1) % im.cn) + 1]
     IN  SaturateCast(Rat(im.pix[k][1] * q[2], im.pix[k][2] * q[1]), im.depth)]]

(***************************************************************************)
(* Transform descriptors: the objects a Transformer holds.                 *)
(***************************************************************************)
Resize(w, h) ==
  [kind |-> "Resize", width_ |-> w, height_ |-> h, type_ |-> "", mean_ |-> <<>>,
   stddev_ |-> <<>>]

CenterCrop(w, h) ==
  [kind |-> "CenterCrop", width_ |-> w, height_ |-> h, type_ |-> "", mean_ |-> <<>>,
   stddev_ |-> <<>>]

ConvertImageDType(type) ==
  [kind |-> "ConvertImageDType", width_ |-> 0, height_ |-> 0, type_ |-> type,
   mean_ |-> <<>>, stddev_ |-> <<>>]

Normalize(mean, stddev) ==
  [kind |-> "Normalize", width_ |-> 0, height_ |-> 0, type_ |-> "", mean_ |-> mean,
   stddev_ |-> stddev]

ToTensor ==
  [kind |-> "ToTensor", width_ |-> 0, height_ |-> 0, type_ |-> "", mean_ |-> <<>>,
   stddev_ |-> <<>>]

\* dynamic_cast<ToTensor*>(t) != nullptr
IsToTensor(t) == t.kind = "ToTensor"

(***************************************************************************)
(* Resize                                                                  *)
(***************************************************************************)
\* cv::resize copies when the size does not change; otherwise its bilinear
\* interpolation handles the depths 8U, 16U, 16S, 32F and 64F and raises
\* cv::Exception for the others.
ResizeAccepts(img, depth, w, h) ==
  \/ w = img.cols /\ h = img.rows
  \/ depth \in {CV_8U, CV_16U, CV_16S, CV_32F, CV_64F}

\* Mutant: the copy overload of Resize returns a copy of its argument.
Resize_transform_kept(t, heap, img) == NewMat(heap, Image(heap, img))

\* Resize::transform(const cv::Mat&): the result is a new matrix.
Resize_transform(t, heap, img) ==
  IF ResizeAccepts(img, MatDepth(heap, img), t.width_, t.height_)
  THEN NewMat(heap, CvResize(Image(heap, img), t.width_, t.height_))
  ELSE Terminate(heap, img)

\* Resize::transform(cv::Mat&): cv::resize(img, img, ...) keeps img's buffer
\* when the size does not change and gives img a new buffer otherwise.
Resize_transform_inplace(t, heap, img) ==
  IF t.width_ = img.cols /\ t.height_ = img.rows
  THEN Same(heap, img)
  ELSE IF ResizeAccepts(img, MatDepth(heap, img), t.width_, t.height_)
  THEN NewMat(heap, CvResize(Image(heap, img), t.width_, t.height_))
  ELSE Terminate(heap, img)

(***************************************************************************)
(* CenterCrop                                                              *)
(***************************************************************************)
\* Mutant: the region starts at the corner of the image.
get_roi_corner(img, w, h) == [x |-> 0, y |-> 0, width |-> w, height |-> h]

get_roi(img, w, h) ==
  [x |-> TruncDiv(img.cols - w, 2), y |-> TruncDiv(img.rows - h, 2),
   width |-> w, height |-> h]

\* cv::Mat::operator()(Rect) raises cv::Exception unless the rectangle lies
\* inside the matrix.
RoiInside(img, roi) ==
  /\ 0 <= roi.x /\ 0 <= roi.width /\ roi.x + roi.width <= img.cols
  /\ 0 <= roi.y /\ 0 <= roi.height /\ roi.y + roi.height <= img.rows

\* img(roi): a header over the same buffer.
SubMat(img, roi) ==
  [buf |-> img.buf, r0 |-> img.r0 + roi.y, c0 |-> img.c0 + roi.x,
   rows |-> roi.height, cols |-> roi.width]

\* CenterCrop::transform(const cv::Mat&): the region, cloned.
CenterCrop_transform(t, heap, img) ==
  LET roi == get_roi(img, t.width_, t.height_)
  IN  IF RoiInside(img, roi)
      THEN NewMat(heap, Image(heap, SubMat(img, roi)))
      ELSE Terminate(heap, img)

\* CenterCrop::transform(cv::Mat&): img becomes the region of its own buffer.
CenterCrop_transform_inplace(t, heap, img) ==
  LET roi == get_roi(img, t.width_, t.height_)
  IN  IF RoiInside(img, roi)
      THEN Same(heap, SubMat(img, roi))
      ELSE Terminate(heap, img)

(***************************************************************************)
(* ConvertImageDType                                                       *)
(***************************************************************************)
\* Mutant: the conversion into a floating point type does not scale.
Scale_none == <<1, 1>>

\* constexpr double scale = 1.0 / 255.0
Scale == <<1, 255>>

\* type and alpha come in as img.depth() and 1.0 and are overwritten by the
\* cases of the switch.
get_conversion_props(comp_type, type, alpha) ==
  CASE comp_type = "kUInt8" -> [type |-> CV_8U, alpha |-> alpha]
    [] comp_type = "kInt8" -> [type |-> CV_8S, alpha |-> alpha]
    [] comp_type = "kInt16" -> [type |-> CV_16S, alpha |-> alpha]
    [] comp_type \in {"kInt32", "kInt64"} -> [type |-> CV_32S, alpha |-> alpha]
    [] comp_type = "kFloat16" -> [type |-> CV_16F, alpha |-> Scale]
    [] comp_type = "kFloat32" -> [type |-> CV_32F, alpha |-> Scale]
    [] comp_type = "kFloat64" -> [type |-> CV_64F, alpha |-> Scale]
    [] OTHER -> [type |-> type, alpha |-> alpha]

\* Mutant: the early return is missing.
AlreadyConverted_never(type, depth) == FALSE

\* The early return of both variants: the image already has the target depth.
AlreadyConverted(type, depth) == type = depth

\* convertTo followed by cvtColor; both variants leave the source buffer
\* alone, since convertTo to another type allocates its destination.
ConvertAndSwap(heap, img, props) ==
  LET converted == ConvertTo(Image(heap, img), props.type, props.alpha)
  IN  IF CvtColorAccepts(converted)
      THEN NewMat(heap, CvtColorBGR2RGB(converted))
      ELSE Terminate(heap, img)

\* ConvertImageDType::transform(const cv::Mat&): returns img itself (a header
\* sharing img's buffer) when there is nothing to convert.
ConvertImageDType_transform(t, heap, img) ==
  LET props == get_conversion_props(t.type_, MatDepth(heap, img), RInt(1))
  IN  IF AlreadyConverted(props.type, MatDepth(heap, img))
      THEN Same(heap, img)
      ELSE ConvertAndSwap(heap, img, props)

\* ConvertImageDType::transform(cv::Mat&)
ConvertImageDType_transform_inplace(t, heap, img) ==
  LET props == get_conversion_props(t.type_, MatDepth(heap, img), RInt(1))
  IN  IF AlreadyConverted(props.type, MatDepth(heap, img))
      THEN Same(heap, img)
      ELSE ConvertAndSwap(heap, img, props)

(***************************************************************************)
(* Normalize                                                               *)
(***************************************************************************)
\* The mean and the standard deviation of the Normalize stages of the model:
\* cv::Scalar(a, b, c), whose fourth component is 0.
Mean == <<<<1, 2>>, <<1, 1>>, <<2, 1>>, <<0, 1>>>>

Stddev == <<<<2, 1>>, <<1, 2>>, <<4, 1>>, <<0, 1>>>>

\* Mutant: the copy overload subtracts the mean and does not divide.
Normalize_transform_mean_only(t, heap, img) ==
  NewMat(heap, SubtractScalar(Image(heap, img), t.mean_))

\* Normalize::transform(const cv::Mat&): (img - mean_) / stddev_, a new matrix.
Normalize_transform(t, heap, img) ==
  NewMat(heap, DivideScalar(SubtractScalar(Image(heap, img), t.mean_), t.stddev_))

\* Normalize::transform(cv::Mat&): img -= mean_; img /= stddev_, written into
\* the buffer img refers to.
Normalize_transform_inplace(t, heap, img) ==
  LET sub == StoreInto(heap, img, SubtractScalar(Image(heap, img), t.mean_).pix)
      div == StoreInto(sub, img, DivideScalar(Image(sub, img), t.stddev_).pix)
  IN  Same(div, img)

(***************************************************************************)
(* Transform: the virtual dispatch of the two transform overloads.         *)
(***************************************************************************)
\* Transform::transform(const cv::Mat&) of the base class returns img.
Transform_transform(t, heap, img) ==
  CASE t.kind = "Resize" -> Resize_transform(t, heap, img)
    [] t.kind = "CenterCrop" -> CenterCrop_transform(t, heap, img)
    [] t.kind = "ConvertImageDType" -> ConvertImageDType_transform(t, heap, img)
    [] t.kind = "Normalize" -> Normalize_transform(t, heap, img)
    [] OTHER -> Same(heap, img)

\* Transform::transform(cv::Mat&) of the base class assigns img the result of
\* the const overload, which ToTensor does not override either.
Transform_transform_inplace(t, heap, img) ==
  CASE t.kind = "Resize" -> Resize_transform_inplace(t, heap, img)
    [] t.kind = "CenterCrop" -> CenterCrop_transform_inplace(t, heap, img)
    [] t.kind = "ConvertImageDType" -> ConvertImageDType_transform_inplace(t, heap, img)
    [] t.kind = "Normalize" -> Normalize_transform_inplace(t, heap, img)
    [] OTHER -> Transform_transform(t, heap, img)

(***************************************************************************)
(* ToTensor                                                                *)
(***************************************************************************)
\* Bytes of one element of each depth.
ElemSize(depth) ==
  CASE depth \in {CV_8U, CV_8S} -> 1
    [] depth \in {CV_16U, CV_16S, CV_16F} -> 2
    [] depth \in {CV_32S, CV_32F} -> 4
    [] OTHER -> 8

\* The switch of ToTensor::create compares img.type(), which carries the
\* channel count, with the depth codes.
NeedsFloatConversion(heap, img) ==
  MatType(MatDepth(heap, img), MatChannels(heap, img))
    \in {CV_8U, CV_8S, CV_16U, CV_16S, CV_32S}

\* torch::from_blob(img.data, {rows, cols, channels}, kFloat32): element k of
\* the blob is the 32-bit float at byte 4k from img.data, whatever the matrix
\* stores there and whatever its row stride.  A float read from 32F storage
\* is the stored value; read from other storage it is the bit pattern of the
\* elements it covers (zero when they are all zero); past the end of the
\* buffer it is indeterminate (junk).
BlobElem(heap, img, k, junk) ==
  LET b == heap[img.buf]
      esz == ElemSize(b.depth)
      base == (img.r0 * b.cols + img.c0) * b.cn
      first == base + ((4 * k) \div esz)
      last == base + ((4 * k + 3) \div esz)
      vals == [i \in 1..(last - first + 1) |-> b.data[first + i]]
  IN  IF last + 1 > Len(b.data) THEN junk
      ELSE IF b.depth = CV_32F THEN b.data[first + 1]
      ELSE IF \A i \in 1..Len(vals) : vals[i] = RInt(0) THEN RInt(0)
      ELSE <<"bits", b.depth, (4 * k) % esz, vals>>

\* from_blob followed by permute({2, 0, 1}): element (c, r, x) of the tensor
\* is element (r, x, c) of the blob.  buf is the storage the tensor aliases.
FromBlobPermuted(heap, img, junk) ==
  LET cn == MatChannels(heap, img)
  IN  [sizes |-> <<cn, img.rows, img.cols>>,
       buf |-> img.buf,
       elems |-> [i \in 1..(cn * img.rows * img.cols) |->
                    LET c == (i - 1) \div (img.rows * img.cols)
                        r == ((i - 1) \div img.cols) % img.rows
                        x == (i - 1) % img.cols
                    IN  BlobElem(heap, img, (r * img.cols + x) * cn + c, junk)]]

NoTensor == [sizes |-> <<>>, buf |-> 0, elems |-> <<>>]

\* The last two statements of ToTensor::create, on the image conv that the
\* switch left (none when the conversion ended the process).
WrapAsTensor(conv, junk) ==
  [heap |-> conv.heap, m |-> conv.m, ok |-> conv.ok,
   tensor |-> IF conv.ok THEN FromBlobPermuted(conv.heap, conv.m, junk)
              ELSE NoTensor]

\* ToTensor::create(cv::Mat& img): img is converted in place when the switch
\* selects it, then wrapped.
ToTensor_create(heap, img, junk) ==
  WrapAsTensor(IF NeedsFloatConversion(heap, img)
               THEN ConvertImageDType_transform_inplace(
                      ConvertImageDType("kFloat32"), heap, img)
               ELSE Same(heap, img),
               junk)

(***************************************************************************)
(* Transformer                                                             *)
(***************************************************************************)
\* Transformer::add: transforms_.emplace_back(make_shared<TransformImpl>(t))
add(transforms, t) == Append(transforms, t)

\* The working state of a run of the Transformer: the working image m, the
\* calls of transform (applied) and of create (created) made so far, and the
\* local tensor_transform of make_tensor (0: nullptr).
Start(heap, img) ==
  [heap |-> heap, m |-> img, ok |-> TRUE, applied |-> <<>>, created |-> <<>>,
   tensor_transform |-> 0]

\* The working state of a run after the call of stage i left r.
AfterCall(st, i, r) ==
  [st EXCEPT !.heap = r.heap, !.m = r.m, !.ok = r.ok,
             !.applied = Append(st.applied, i)]

\* One round of the loops of make_image, update_image and make_tensor:
\* transforms_[i] is applied in place to the working image; applied records
\* the calls made.
ApplyInPlace(ts, i, st) ==
  AfterCall(st, i, Transform_transform_inplace(ts[i], st.heap, st.m))

RECURSIVE ApplyFrom(_, _, _)
ApplyFrom(ts, i, st) ==
  IF i > Len(ts) \/ ~st.ok THEN st ELSE ApplyFrom(ts, i + 1, ApplyInPlace(ts, i, st))

\* The first statement of make_image and of the sweep of make_tensor:
\* transforms_.front()->transform(img), the overload returning a matrix.
ApplyFront(ts, heap, img) ==
  AfterCall(Start(heap, img), 1, Transform_transform(ts[1], heap, img))

\* First index of the loop that follows the front transform (size_t i = 1;
\* sequences start at 1).
LoopStart == 2

\* Mutant: the loop starts at the front transform again (size_t i = 0).
make_image_from_front(ts, heap, img) == ApplyFrom(ts, 1, ApplyFront(ts, heap, img))

\* Transformer::make_image(const cv::Mat& img)
make_image(ts, heap, img) == ApplyFrom(ts, LoopStart, ApplyFront(ts, heap, img))

\* Transformer::update_image(cv::Mat& img)
update_image(ts, heap, img) ==
  ApplyFrom(ts, 1, Start(heap, img))

\* Mutant: only the first ToTensor stage met is remembered.
Remember_first(st, i) ==
  IF st.tensor_transform = 0 THEN [st EXCEPT !.tensor_transform = i] ELSE st

\* Mutant: a ToTensor stage met in the sweep creates at once, not deferred.
Remember_eager(st, i) ==
  [st EXCEPT !.tensor_transform = i, !.created = Append(st.created, i)]

\* The assignment tensor_transform = t of the sweep of make_tensor.
Remember(st, i) == [st EXCEPT !.tensor_transform = i]

\* The loop of make_tensor: a ToTensor stage is remembered and skipped, any
\* other stage is applied in place.
RECURSIVE Sweep(_, _, _)
Sweep(ts, i, st) ==
  IF i > Len(ts) \/ ~st.ok THEN st
  ELSE IF IsToTensor(ts[i]) THEN Sweep(ts, i + 1, Remember(st, i))
  ELSE Sweep(ts, i + 1, ApplyInPlace(ts, i, st))

\* The branch of make_tensor taken when transforms_.front() is a ToTensor:
\* it creates the tensor from a copy of the header of img and returns.
FrontIsToTensor(ts) == IsToTensor(ts[1])

\* Transformer::make_tensor(const cv::Mat& img).  created lists the stages
\* whose create ran (0: the default-constructed ToTensor).
\* The outcome of a run of make_tensor in which the create of stage by (0:
\* the default-constructed ToTensor) was called on the working state st and
\* left c.
Created(st, by, c) ==
  [heap |-> c.heap, m |-> c.m, ok |-> c.ok, tensor |-> c.tensor,
   applied |-> st.applied, created |-> Append(st.created, by)]

\* Mutant: the default materialization normalizes the image first.
CreateAfterSweep_normalized(st, junk) ==
  IF st.ok /\ st.tensor_transform = 0
  THEN Created(st, 0,
               WrapAsTensor(Normalize_transform(Normalize(Mean, Stddev), st.heap, st.m),
                            junk))
  ELSE IF st.ok
  THEN Created(st, st.tensor_transform, ToTensor_create(st.heap, st.m, junk))
  ELSE [heap |-> st.heap, m |-> st.m, ok |-> FALSE, tensor |-> NoTensor,
        applied |-> st.applied, created |-> st.created]

\* The return statement after the sweep: tensor_transform ?
\* tensor_transform->create(image) : ToTensor().create(image).
CreateAfterSweep(st, junk) ==
  IF st.ok
  THEN Created(st, st.tensor_transform, ToTensor_create(st.heap, st.m, junk))
  ELSE [heap |-> st.heap, m |-> st.m, ok |-> FALSE, tensor |-> NoTensor,
        applied |-> st.applied, created |-> st.created]

make_tensor(ts, heap, img, junk) ==
  IF FrontIsToTensor(ts)
  THEN Created(Start(heap, img), 1, ToTensor_create(heap, img, junk))
  ELSE CreateAfterSweep(Sweep(ts, LoopStart, ApplyFront(ts, heap, img)), junk)

(***************************************************************************)
(* The networks.  A build is [NDEBUG, zero_channels]: whether the          *)
(* translation unit was compiled with NDEBUG defined (assert expands to    *)
(* nothing), and whether the tensor library of the build constructs a      *)
(* convolution with a channel count of zero (older releases do, later ones *)
(* raise c10::Error).                                                      *)
(***************************************************************************)
Builds == [NDEBUG : BOOLEAN, zero_channels : BOOLEAN]

\* assert(false && "..."): std::abort, or nothing at all under NDEBUG.
assert_false(build) == IF build.NDEBUG THEN "passed" ELSE "aborted"

pad_0 == 0

pad_1 == 1

stride_1 == 1

stride_2 == 2

\* torch::nn::Conv2d(Conv2dOptions(in, out, kernel).stride().padding()...)
Conv2d(in, out, kernel, stride, padding, groups, dilation) ==
  [kind |-> "Conv2d", in |-> in, out |-> out, kernel |-> kernel, stride |-> stride,
   padding |-> padding, groups |-> groups, dilation |-> dilation]

\* torch::nn::BatchNorm2d(features): the weight starts as ones.
Norm(features) == [kind |-> "BatchNorm2d", features |-> features, weight |-> 1]

\* Whether the library constructs the convolution or raises c10::Error:
\* a negative size and a channel count the groups do not divide are always
\* rejected, a channel count of zero by some releases.
Conv2dAccepted(c, build) ==
  /\ c.in >= 0 /\ c.out >= 0 /\ c.groups > 0
  /\ c.in % c.groups = 0 /\ c.out % c.groups = 0
  /\ (c.in = 0 \/ c.out = 0) => build.zero_channels

conv_7x7(input_channels, output_channels, stride, padding) ==
  Conv2d(input_channels, output_channels, 7, stride, padding, 1, 1)

conv_3x3(input_channels, output_channels, stride, groups, dilation) ==
  Conv2d(input_channels, output_channels, 3, stride, dilation, groups, dilation)

conv_1x1(input_channels, output_channels, stride, padding) ==
  Conv2d(input_channels, output_channels, 1, stride, padding, 1, 1)

\* conv_3x3_bn(input_channels, output_channels, stride, padding = 1), the
\* overload conv.hpp declares: conv.cpp defines it with kernel_size_xy = 1.
\* Sequential{Conv2d, BatchNorm2d, ReLU}
conv_3x3_bn(input_channels, output_channels, stride, padding) ==
  <<Conv2d(input_channels, output_channels, 1, stride, padding, 1, 1), Norm(output_channels)>>

\* conv_1x1_bn(input_channels, output_channels, stride, padding = 1), as
\* conv.hpp declares it: a kernel of 1.
conv_1x1_bn(input_channels, output_channels, stride, padding) ==
  <<Conv2d(input_channels, output_channels, 1, stride, padding, 1, 1), Norm(output_channels)>>

\* A DownSampler / Layer that is nullptr.
nullptr == <<>>

\* The outcome of a constructor: the object it built (members and registered
\* modules), or the way it ended otherwise.
Constructed(obj) == [outcome |-> "constructed", obj |-> obj]

Failed(how, obj) == [outcome |-> how, obj |-> obj]

ConvsAccepted(convs, build) == \A i \in 1..Len(convs) : Conv2dAccepted(convs[i], build)

(***************************************************************************)
(* BasicBlock                                                              *)
(***************************************************************************)
BasicBlock_expansion == 1

\* BasicBlockImpl::BasicBlockImpl: the member initializers build the layers,
\* then the two checks run, then the modules are registered.
BasicBlockImpl(inplanes, planes, stride, downsampler, groups, base_width, dilation, build) ==
  LET obj == [type |-> "BasicBlock", inplanes |-> inplanes, planes |-> planes,
              stride |-> stride, downsampler_ |-> downsampler, groups |-> groups,
              base_width |-> base_width, dilation |-> dilation,
              convs |-> <<conv_3x3(inplanes, planes, stride, 1, 1),
                          conv_3x3(planes, planes, 1, 1, 1)>>,
              norms |-> <<Norm(planes), Norm(planes)>>,
              modules |-> <<>>]
      registered == [obj EXCEPT !.modules =
                       <<"conv1", "bn1", "conv2", "bn2", "relu">>
                         \o (IF downsampler # nullptr THEN <<"downsample">> ELSE <<>>)]
  IN  IF ~ConvsAccepted(obj.convs, build) THEN Failed("exception", obj)
      ELSE IF (groups # 1 \/ base_width # 64) /\ assert_false(build) = "aborted"
      THEN Failed("aborted", obj)
      ELSE IF dilation > 1 /\ assert_false(build) = "aborted"
      THEN Failed("aborted", obj)
      ELSE Constructed(registered)

\* BasicBlockImpl::zero_init_residual
BasicBlockImpl_zero_init_residual(block) == [block EXCEPT !.norms[2].weight = 0]

(***************************************************************************)
(* Bottleneck                                                              *)
(***************************************************************************)
Bottleneck_expansion == 4

\* int64_t width = planes * (base_width / 64.0) * groups: the product is
\* exact for the sizes in use; the conversion to int64_t truncates.
BottleneckWidth(planes, base_width, groups) == TruncDiv(planes * base_width * groups, 64)

\* BottleneckImpl::BottleneckImpl (sls_block.cpp): no check of its own.
BottleneckImpl(inplanes, planes, stride, downsampler, groups, base_width, dilation, build) ==
  LET width == BottleneckWidth(planes, base_width, groups)
      obj == [type |-> "Bottleneck", inplanes |-> inplanes, planes |-> planes,
              stride |-> stride, downsampler_ |-> downsampler, groups |-> groups,
              base_width |-> base_width, dilation |-> dilation,
              convs |-> <<conv_1x1(inplanes, width, 1, 0),
                          conv_3x3(width, width, stride, groups, dilation),
                          conv_1x1(width, planes * Bottleneck_expansion, 1, 0)>>,
              norms |-> <<Norm(width), Norm(width), Norm(planes * Bottleneck_expansion)>>,
              modules |-> <<>>]
      registered == [obj EXCEPT !.modules =
                       <<"conv1", "bn1", "conv2", "bn2", "conv3", "bn3", "relu">>
                         \o (IF downsampler # nullptr THEN <<"downsample">> ELSE <<>>)]
  IN  IF ~ConvsAccepted(obj.convs, build) THEN Failed("exception", obj)
      ELSE Constructed(registered)

\* BottleneckImpl::zero_init_residual
BottleneckImpl_zero_init_residual(block) == [block EXCEPT !.norms[3].weight = 0]

\* BottleneckImpl::BottleneckImpl (bottleneck.cpp): the block of four
\* parameters the ResNet-V2 assembler is instantiated with.
BottleneckImpl_4(input_channels, output_channels, stride, downsampler, build) ==
  LET obj == [type |-> "Bottleneck", inplanes |-> input_channels,
              planes |-> output_channels, stride |-> stride,
              downsampler_ |-> downsampler, groups |-> 1, base_width |-> 64,
              dilation |-> 1,
              convs |-> <<conv_1x1(input_channels, output_channels, stride_1, pad_0),
                          conv_3x3(output_channels, output_channels, stride, pad_1, 1),
                          conv_1x1(output_channels, output_channels * Bottleneck_expansion,
                                   stride_1, pad_0)>>,
              norms |-> <<Norm(output_channels), Norm(output_channels),
                          Norm(output_channels * Bottleneck_expansion)>>,
              modules |-> <<>>]
      registered == [obj EXCEPT !.modules =
                       <<"conv1", "bn1", "conv2", "bn2", "conv3", "bn3", "relu">>
                         \o (IF downsampler # nullptr THEN <<"downsample">> ELSE <<>>)]
  IN  IF ~ConvsAccepted(obj.convs, build) THEN Failed("exception", obj)
      ELSE Constructed(registered)

\* Block::expansion
Expansion(Block) == IF Block = "Bottleneck" THEN Bottleneck_expansion ELSE BasicBlock_expansion

\* Block(inplanes, planes, stride, downsample, groups, base_width, dilation)
NewBlock(Block, inplanes, planes, stride, downsampler, groups, base_width, dilation, build) ==
  IF Block = "Bottleneck"
  THEN BottleneckImpl(inplanes, planes, stride, downsampler, groups, base_width,
                      dilation, build)
  ELSE BasicBlockImpl(inplanes, planes, stride, downsampler, groups, base_width,
                      dilation, build)

(***************************************************************************)
(* ResnetImpl<Block>                                                       *)
(***************************************************************************)
first_conv_outputs == 64

layer_1_out_channels == 64

layer_2_out_channels == 128

layer_3_out_channels == 256

layer_4_out_channels == 512

\* torch::nn::Linear(in, out)
Linear(in, out) == [kind |-> "Linear", in |-> in, out |-> out]

\* layer->push_back(Block(...)): b is what the constructor of the block left.
Pushed(st, b) ==
  IF b.outcome # "constructed" THEN [st EXCEPT !.outcome = b.outcome]
  ELSE [st EXCEPT !.layer = Append(st.layer, b.obj)]

\* The loop of make_layer, for (int64_t i = 1; i != blocks; ++i), from the
\* test of its i-th round on.  st is [outcome, layer, inplanes_, dilation_].
\* A loop that has pushed MaxLoop blocks without i meeting blocks is cut
\* off as "diverged".
RECURSIVE Resnet_push_rest(_, _, _, _, _, _, _, _)
Resnet_push_rest(Block, st, planes, blocks, i, groups_, base_width_, build) ==
  IF i = blocks \/ st.outcome # "constructed" THEN st
  ELSE IF Len(st.layer) >= MaxLoop THEN [st EXCEPT !.outcome = "diverged"]
  ELSE Resnet_push_rest(Block,
         Pushed(st, NewBlock(Block, st.inplanes_, planes, stride_1, nullptr, groups_,
                             base_width_, st.dilation_, build)),
         planes, blocks, i + 1, groups_, base_width_, build)

\* The test that decides whether the first block of a layer gets a
\* downsampling shortcut.
NeedsDownsample(stride, inplanes, out_planes) == stride # stride_1 \/ inplanes # out_planes

\* Mutant: only a change of stride gives the first block a shortcut.
Resnet_downsample_stride_only(stride, inplanes, out_planes) ==
  IF stride # stride_1
  THEN <<conv_1x1(inplanes, out_planes, stride, 0), Norm(out_planes)>>
  ELSE nullptr

\* Layer{conv_1x1(inplanes_, out_planes, stride), Norm(out_planes)} or nullptr
Resnet_downsample(stride, inplanes, out_planes) ==
  IF NeedsDownsample(stride, inplanes, out_planes)
  THEN <<conv_1x1(inplanes, out_planes, stride, 0), Norm(out_planes)>>
  ELSE nullptr

\* Mutant: inplanes_ is left as it was after the first block of a layer.
Resnet_layer_from_stale(Block, self, first, dilation_, planes, blocks, build) ==
  IF first.outcome # "constructed"
  THEN [outcome |-> first.outcome, layer |-> <<>>, inplanes_ |-> self.inplanes_,
        dilation_ |-> dilation_]
  ELSE Resnet_push_rest(Block,
                        [outcome |-> "constructed", layer |-> <<first.obj>>,
                         inplanes_ |-> self.inplanes_,
                         dilation_ |-> dilation_],
                        planes, blocks, 1, self.groups_, self.base_width_, build)

\* make_layer from the push of its first block on: first is what the
\* constructor of that block left, dilation_ the member as updated.
Resnet_layer_from(Block, self, first, dilation_, planes, blocks, build) ==
  IF first.outcome # "constructed"
  THEN [outcome |-> first.outcome, layer |-> <<>>, inplanes_ |-> self.inplanes_,
        dilation_ |-> dilation_]
  ELSE Resnet_push_rest(Block,
                        [outcome |-> "constructed", layer |-> <<first.obj>>,
                         inplanes_ |-> planes * Expansion(Block),
                         dilation_ |-> dilation_],
                        planes, blocks, 1, self.groups_, self.base_width_, build)

\* ResnetImpl::make_layer(planes, blocks, stride, dilate), on the members
\* self = [inplanes_, dilation_, groups_, base_width_].
Resnet_make_layer(Block, self, planes, blocks, stride, dilate, build) ==
  LET out_planes == planes * Expansion(Block)
      prev_dilation == self.dilation_
      dilation_ == IF dilate THEN self.dilation_ * stride ELSE self.dilation_
      stride_ == IF dilate THEN 1 ELSE stride
      downsample == Resnet_downsample(stride_, self.inplanes_, out_planes)
  IN  Resnet_layer_from(Block, self,
                        NewBlock(Block, self.inplanes_, planes, stride_, downsample,
                                 self.groups_, self.base_width_, prev_dilation, build),
                        dilation_, planes, blocks, build)

\* The planes, the stride and the dilate argument of the four make_layer
\* calls of the constructor.
Resnet_layer_planes ==
  <<layer_1_out_channels, layer_2_out_channels, layer_3_out_channels,
    layer_4_out_channels>>

Resnet_layer_stride == <<stride_1, stride_2, stride_2, stride_2>>

Resnet_layer_dilate(dilation_for_stride) ==
  <<FALSE, dilation_for_stride[1], dilation_for_stride[2], dilation_for_stride[3]>>

\* layer_k_ = make_layer(...): the object with the layer l and the members
\* as make_layer left them.
Resnet_with_layer(net, l) ==
  [net EXCEPT !.outcome = l.outcome, !.layers = Append(net.layers, l.layer),
              !.inplanes_ = l.inplanes_, !.dilation_ = l.dilation_]

\* layer_1_ .. layer_4_, built in turn from layer k on; net is the object
\* under construction.
RECURSIVE Resnet_make_layers(_, _, _, _, _)
Resnet_make_layers(net, k, layer_sizes, dilation_for_stride, build) ==
  IF k > 4 \/ net.outcome # "constructed" THEN net
  ELSE Resnet_make_layers(
         Resnet_with_layer(net,
           Resnet_make_layer(net.Block,
             [inplanes_ |-> net.inplanes_, dilation_ |-> net.dilation_,
              groups_ |-> net.groups_, base_width_ |-> net.base_width_],
             Resnet_layer_planes[k], layer_sizes[k], Resnet_layer_stride[k],
             Resnet_layer_dilate(dilation_for_stride)[k], build)),
         k + 1, layer_sizes, dilation_for_stride, build)

\* nn::init::constant_(mod->weight, 1) on every BatchNorm2d of a block
InitNorms(block) ==
  [block EXCEPT !.norms = [i \in 1..Len(block.norms) |-> [block.norms[i] EXCEPT !.weight = 1]]]

\* dynamic_cast<BottleneckImpl*>(module.get()) != nullptr
IsBottleneckImpl(module) == module.type = "Bottleneck"

\* The body of the loop under if (zero_init_residual), on one block.
Resnet_zero_init(block) ==
  IF IsBottleneckImpl(block) THEN BottleneckImpl_zero_init_residual(block) ELSE block

\* The two loops over modules(false) that end the constructor.
Resnet_init_modules(layers, zero_init_residual) ==
  [k \in 1..Len(layers) |->
     [j \in 1..Len(layers[k]) |->
        IF zero_init_residual THEN Resnet_zero_init(InitNorms(layers[k][j]))
        ELSE InitNorms(layers[k][j])]]

\* The end of the constructor, on the object with its four layers.
Resnet_initialized(made, zero_init_residual) ==
  IF made.outcome # "constructed" THEN made
  ELSE [made EXCEPT !.layers = Resnet_init_modules(made.layers, zero_init_residual)]

\* ResnetImpl::ResnetImpl
ResnetImpl(Block, layer_sizes, classes, zero_init_residual, groups, width_per_group, dilation_for_stride, build) ==
  Resnet_initialized(
              Resnet_make_layers(
                [outcome |-> "constructed", type |-> "Resnet", Block |-> Block,
                 inplanes_ |-> first_conv_outputs, classes_ |-> classes,
                 dilation_ |-> 1, groups_ |-> groups, base_width_ |-> width_per_group,
                 conv_1_ |-> conv_7x7(3, first_conv_outputs, stride_2, 3),
                 batchnorm_1_ |-> Norm(first_conv_outputs),
                 fc_ |-> Linear(layer_4_out_channels * Expansion(Block), classes),
                 layers |-> <<>>],
                1, layer_sizes, dilation_for_stride, build),
              zero_init_residual)

(***************************************************************************)
(* ResnetV2Impl<Block>, instantiated with the Bottleneck of four           *)
(* parameters.                                                             *)
(***************************************************************************)
RECURSIVE ResnetV2_push_rest(_, _, _, _, _)
ResnetV2_push_rest(st, out_channels, blocks, i, build) ==
  IF i = blocks \/ st.outcome # "constructed" THEN st
  ELSE IF Len(st.layer) >= MaxLoop THEN [st EXCEPT !.outcome = "diverged"]
  ELSE ResnetV2_push_rest(
         Pushed(st, BottleneckImpl_4(st._in_channels, out_channels, 1, nullptr, build)),
         out_channels, blocks, i + 1, build)

ResnetV2_layer_from(_in_channels, first, out_channels, blocks, build) ==
  IF first.outcome # "constructed"
  THEN [outcome |-> first.outcome, layer |-> <<>>, _in_channels |-> _in_channels]
  ELSE ResnetV2_push_rest([outcome |-> "constructed", layer |-> <<first.obj>>,
                           _in_channels |-> out_channels * Bottleneck_expansion],
                          out_channels, blocks, 1, build)

\* ResnetV2Impl::make_layer(out_channels, blocks, stride)
ResnetV2_make_layer(_in_channels, out_channels, blocks, stride, build) ==
  LET out_planes == out_channels * Bottleneck_expansion
      downsample == IF NeedsDownsample(stride, _in_channels, out_planes)
                    THEN <<conv_1x1(_in_channels, out_planes, stride, 0), Norm(out_planes)>>
                    ELSE nullptr
  IN  ResnetV2_layer_from(_in_channels,
                          BottleneckImpl_4(_in_channels, out_channels, stride,
                                           downsample, build),
                          out_channels, blocks, build)

\* The out_channels, the blocks and the stride of the four make_layer calls
\* in the member initializers: every call reads layer_sizes[0].
ResnetV2_layer_blocks(layer_sizes) ==
  <<layer_sizes[1], layer_sizes[1], layer_sizes[1], layer_sizes[1]>>

ResnetV2_layer_stride == <<stride_2, stride_2, stride_2, stride_1>>

ResnetV2_with_layer(net, l) ==
  [net EXCEPT !.outcome = l.outcome, !.layers = Append(net.layers, l.layer),
              !._in_channels = l._in_channels]

RECURSIVE ResnetV2_make_layers(_, _, _, _)
ResnetV2_make_layers(net, k, layer_sizes, build) ==
  IF k > 4 \/ net.outcome # "constructed" THEN net
  ELSE ResnetV2_make_layers(
         ResnetV2_with_layer(net,
           ResnetV2_make_layer(net._in_channels, Resnet_layer_planes[k],
                               ResnetV2_layer_blocks(layer_sizes)[k],
                               ResnetV2_layer_stride[k], build)),
         k + 1, layer_sizes, build)

\* ResnetV2Impl::ResnetV2Impl: _fc is initialized after the layers, from the
\* _in_channels they left.
ResnetV2_with_fc(made, classes) == [made EXCEPT !._fc = Linear(made._in_channels, classes)]

ResnetV2Impl(layer_sizes, classes, build) ==
  ResnetV2_with_fc(
              ResnetV2_make_layers(
                [outcome |-> "constructed", type |-> "ResnetV2", Block |-> "Bottleneck",
                 _in_channels |-> first_conv_outputs, _classes |-> classes,
                 _conv |-> conv_7x7(3, first_conv_outputs, stride_2, 3),
                 _batchnorm |-> Norm(first_conv_outputs),
                 _fc |-> Linear(0, classes),
                 layers |-> <<>>],
                1, layer_sizes, build),
              classes)

(***************************************************************************)
(* Tensors, by their shape: [channels, height, width].                     *)
(***************************************************************************)
Shape(channels, height, width) == [channels |-> channels, height |-> height, width |-> width]

\* Conv2d::forward: c10::Error unless the input has the channels the
\* convolution was built for; the output size is that of the convolution
\* arithmetic.
ConvOut(n, c) ==
  ((n + 2 * c.padding - c.dilation * (c.kernel - 1) - 1) \div c.stride) + 1

Conv2d_forward(c, t) ==
  IF t.channels # c.in THEN [ok |-> FALSE, t |-> t]
  ELSE [ok |-> TRUE, t |-> Shape(c.out, ConvOut(t.height, c), ConvOut(t.width, c))]

\* torch::cat(ts, 1): c10::Error unless the sizes other than the channels
\* agree.
Cat(ts) ==
  IF \A i \in 1..Len(ts) : ts[i].height = ts[1].height /\ ts[i].width = ts[1].width
  THEN [ok |-> TRUE,
        t |-> Shape(ts[1].channels + (IF Len(ts) > 1 THEN ts[2].channels ELSE 0)
                      + (IF Len(ts) > 2 THEN ts[3].channels ELSE 0)
                      + (IF Len(ts) > 3 THEN ts[4].channels ELSE 0),
                    ts[1].height, ts[1].width)]
  ELSE [ok |-> FALSE, t |-> ts[1]]

(***************************************************************************)
(* forward of the residual blocks                                          *)
(***************************************************************************)
\* out += residual: c10::Error unless residual broadcasts to the shape of
\* out, each of its sizes being that of out or 1.
AddInPlace(out, residual) ==
  /\ residual.channels \in {out.channels, 1}
  /\ residual.height \in {out.height, 1}
  /\ residual.width \in {out.width, 1}

\* The convolutions of a block applied in turn (the norms and the relu keep
\* the shape), from the i-th on.
RECURSIVE ForwardConvs(_, _, _)
ForwardConvs(convs, i, r) ==
  IF i > Len(convs) \/ ~r.ok THEN r
  ELSE ForwardConvs(convs, i + 1, Conv2d_forward(convs[i], r.t))

\* Mutant: the shortcut is never applied, the input is the residual.
Residual_identity(block, x) == [ok |-> TRUE, t |-> x]

\* auto residual = downsampler_ ? downsampler_->forward(x) : x;
Residual(block, x) ==
  IF block.downsampler_ # nullptr THEN Conv2d_forward(block.downsampler_[1], x)
  ELSE [ok |-> TRUE, t |-> x]

\* The end of forward, on what the main path and the shortcut left.
ResidualSum(main, residual) ==
  [outcome |-> IF main.ok /\ residual.ok /\ AddInPlace(main.t, residual.t)
               THEN "returned" ELSE "exception",
   out |-> main.t, residual |-> residual.t]

\* BasicBlockImpl::forward(x)
BasicBlockImpl_forward(block, x) ==
  ResidualSum(ForwardConvs(block.convs, 1, [ok |-> TRUE, t |-> x]), Residual(block, x))

\* BottleneckImpl::forward(x)
BottleneckImpl_forward(block, x) ==
  ResidualSum(ForwardConvs(block.convs, 1, [ok |-> TRUE, t |-> x]), Residual(block, x))

(***************************************************************************)
(* SlsBlock                                                                *)
(***************************************************************************)
\* SlsBlockImpl::make_layer: Layer{Conv(ops), Norm(outplanes), Relu}.  The
\* source names the kernel kernel_size where its parameter is kernel_width;
\* the parameter is what is meant.
SlsBlock_make_layer(inplanes, outplanes, kernel_width, stride, padding) ==
  <<Conv2d(inplanes, outplanes, kernel_width, stride, padding, 1, 1), Norm(outplanes)>>

\* SlsBlockImpl::SlsBlockImpl: no check of its own.
SlsBlockImpl(inplanes, skip, planes, outplanes, is_first, stride, build) ==
  LET half == TruncDiv(planes, 2)
      obj == [type |-> "SlsBlock", inplanes |-> inplanes, skip |-> skip,
              planes |-> planes, outplanes |-> outplanes, is_first_ |-> is_first,
              stride |-> stride,
              conv |-> <<SlsBlock_make_layer(inplanes, planes, 3, stride, 1),
                         SlsBlock_make_layer(planes, planes, 1, 1, 0),
                         SlsBlock_make_layer(planes, half, 3, 1, 1),
                         SlsBlock_make_layer(half, planes, 1, 1, 0),
                         SlsBlock_make_layer(planes, half, 3, 1, 1),
                         SlsBlock_make_layer(2 * planes + (IF is_first THEN 0 ELSE skip),
                                             outplanes, 1, 1, 0)>>,
              modules |-> <<>>]
  IN  IF \E i \in 1..6 : ~Conv2dAccepted(obj.conv[i][1], build)
      THEN Failed("exception", obj)
      ELSE Constructed([obj EXCEPT !.modules =
                          <<"conv1", "conv2", "conv3", "conv4", "conv5", "conv6">>])

\* The test that guards the assertion of forward.
InvalidInputSize(is_first_, size) == (is_first_ /\ size # 1) \/ (~is_first_ /\ size # 2)

\* One layer of the block applied in forward: run holds the tensors at
\* hand, the layers evaluated so far, the concatenation once it is made, and
\* how forward is going.
SlsEval(block, run, i, t) ==
  IF run.outcome # "running" THEN run
  ELSE LET r == Conv2d_forward(block.conv[i][1], t)
       IN  [run EXCEPT !.evaluated = Append(run.evaluated, i),
                       !.last = r.t,
                       !.outcome = IF r.ok THEN "running" ELSE "exception"]

\* SlsBlockImpl::forward(x).  Reading x[0] of an empty vector, or x[1] of a
\* vector of one, is undefined behaviour.
SlsBlockImpl_forward(block, x, build) ==
  LET start == [outcome |-> "running", evaluated |-> <<>>, last |-> Shape(0, 0, 0),
                cat |-> Shape(0, 0, 0), out |-> <<>>]
  IN  IF InvalidInputSize(block.is_first_, Len(x)) /\ assert_false(build) = "aborted"
      THEN [start EXCEPT !.outcome = "aborted"]
      ELSE IF Len(x) = 0 THEN [start EXCEPT !.outcome = "undefined"]
      ELSE LET d1 == SlsEval(block, start, 1, x[1])
               c2 == SlsEval(block, d1, 2, d1.last)
               d2 == SlsEval(block, c2, 3, c2.last)
               c4 == SlsEval(block, d2, 4, d2.last)
               d3 == SlsEval(block, c4, 5, c4.last)
           IN  IF d3.outcome # "running" THEN d3
               ELSE IF block.is_first_
               THEN LET cat == Cat(<<d1.last, d2.last, d3.last>>)
                        o == SlsEval(block, [d3 EXCEPT !.cat = cat.t], 6, cat.t)
                    IN  IF ~cat.ok THEN [d3 EXCEPT !.outcome = "exception"]
                        ELSE IF o.outcome # "running" THEN o
                        ELSE [o EXCEPT !.outcome = "returned", !.out = <<o.last, o.last>>]
               ELSE IF Len(x) < 2 THEN [d3 EXCEPT !.outcome = "undefined"]
               ELSE LET cat == Cat(<<d1.last, d2.last, d3.last, x[2]>>)
                        o == SlsEval(block, [d3 EXCEPT !.cat = cat.t], 6, cat.t)
                    IN  IF ~cat.ok THEN [d3 EXCEPT !.outcome = "exception"]
                        ELSE IF o.outcome # "running" THEN o
                        ELSE [o EXCEPT !.outcome = "returned", !.out = <<o.last, x[2]>>]

(***************************************************************************)
(* SelectSlsNet                                                            *)
(***************************************************************************)
stem_inputs == 3

stem_outputs == 32

\* One entry of a FeatureConfig.
SlsBlockOptions(inplanes, skip, planes, outplanes, stride, is_first) ==
  [inplanes |-> inplanes, skip |-> skip, planes |-> planes, outplanes |-> outplanes,
   stride |-> stride, is_first |-> is_first]

\* Mutant: the fourth block takes the skip of the second.
config_42_skip_64 ==
  <<SlsBlockOptions(32, 0, 64, 64, 2, TRUE),
    SlsBlockOptions(64, 64, 64, 128, 1, FALSE),
    SlsBlockOptions(128, 0, 144, 144, 2, TRUE),
    SlsBlockOptions(144, 64, 144, 288, 1, FALSE),
    SlsBlockOptions(288, 0, 304, 304, 2, TRUE),
    SlsBlockOptions(304, 304, 304, 480, 1, FALSE)>>

\* SelectSlsNetImpl::config_42
config_42 ==
  <<SlsBlockOptions(32, 0, 64, 64, 2, TRUE),
    SlsBlockOptions(64, 64, 64, 128, 1, FALSE),
    SlsBlockOptions(128, 0, 144, 144, 2, TRUE),
    SlsBlockOptions(144, 144, 144, 288, 1, FALSE),
    SlsBlockOptions(288, 0, 304, 304, 2, TRUE),
    SlsBlockOptions(304, 304, 304, 480, 1, FALSE)>>

\* SlsBlock(block_option): the block of the entry's sizes, stride and
\* is_first.
SlsBlock_from_options(block_option, build) ==
  SlsBlockImpl(block_option.inplanes, block_option.skip, block_option.planes,
               block_option.outplanes, block_option.is_first, block_option.stride, build)

\* The one element of a set of one.
The(S) == CHOOSE v \in S : TRUE

\* core->push_back(SlsBlock(...)): b is what the constructor of the block
\* left, core is [outcome, blocks].
CorePushed(core, b) ==
  IF b.outcome # "constructed" THEN [core EXCEPT !.outcome = b.outcome]
  ELSE [core EXCEPT !.blocks = Append(core.blocks, b.obj)]

\* SelectSlsNetImpl::make_core_features, from the i-th entry of config on.
RECURSIVE make_core_features(_, _, _, _)
make_core_features(config, i, core, build) ==
  IF i > Len(config) \/ core.outcome # "constructed" THEN core
  ELSE The({make_core_features(config, i + 1, CorePushed(core, b), build) :
              b \in {SlsBlock_from_options(config[i], build)}})

\* SelectSlsNetImpl::make_net_head
make_net_head(head_inputs, head_outputs) ==
  <<conv_3x3_bn(head_inputs[1], head_inputs[2], stride_2, 1),
    conv_3x3_bn(head_inputs[2], head_inputs[3], stride_1, 1),
    conv_3x3_bn(head_inputs[3], head_inputs[4], stride_2, 1),
    conv_1x1_bn(head_inputs[4], head_outputs, stride_1, 1)>>

\* SelectSlsNetImpl::SelectSlsNetImpl
SelectSlsNetImpl(head_inputs, head_outputs, classes, config, build) ==
  The({[outcome |-> core.outcome, type |-> "SelectSlsNet",
        num_features_ |-> head_outputs, classes_ |-> classes,
        head_ |-> make_net_head(head_inputs, head_outputs),
        stem_ |-> conv_3x3_bn(stem_inputs, stem_outputs, stride_2, 1),
        features_ |-> core.blocks,
        classifier_ |-> Linear(head_outputs, classes)] :
         core \in {make_core_features(config, 1,
                                      [outcome |-> "constructed", blocks |-> <<>>], build)}})

\* features_->forward<TensorList>(...): each block is handed what the block
\* before it returned, from the i-th block on.  run is [outcome, received,
\* x]: received holds the sizes of the lists the blocks were handed.
FeaturesStep(run, r) ==
  [outcome |-> IF r.outcome = "returned" THEN "running" ELSE r.outcome,
   received |-> Append(run.received, Len(run.x)),
   x |-> IF r.outcome = "returned" THEN r.out ELSE run.x]

RECURSIVE Features_forward(_, _, _, _)
Features_forward(features, i, run, build) ==
  IF i > Len(features) \/ run.outcome # "running" THEN run
  ELSE The({Features_forward(features, i + 1, next, build) :
              next \in {FeaturesStep(run, SlsBlockImpl_forward(features[i], run.x, build))}})

\* head_->forward(x): the four layers in turn.
Head_forward(head, x) ==
  ForwardConvs(<<head[1][1], head[2][1], head[3][1], head[4][1]>>, 1, [ok |-> TRUE, t |-> x])

\* x.mean(3).mean(2), then the classifier unless classes_ is 0: the
\* features of the tensor returned.
Classified(net, x) ==
  IF net.classes_ = 0 THEN [ok |-> TRUE, features |-> x.channels]
  ELSE [ok |-> x.channels = net.classifier_.in, features |-> net.classifier_.out]

\* SelectSlsNetImpl::forward(x)
\* The end of forward, on what the features left: the head, the mean and
\* the classifier.
AfterFeatures(net, core) ==
  LET head == Head_forward(net.head_, core.x[1])
      out == Classified(net, head.t)
  IN  IF core.outcome # "running"
      THEN [outcome |-> core.outcome, received |-> core.received, features |-> 0]
      ELSE IF ~head.ok \/ ~out.ok
      THEN [outcome |-> "exception", received |-> core.received, features |-> 0]
      ELSE [outcome |-> "returned", received |-> core.received, features |-> out.features]

SelectSlsNetImpl_forward(net, x, build) ==
  LET stem == Conv2d_forward(net.stem_[1], x)
  IN  IF ~stem.ok THEN [outcome |-> "exception", received |-> <<>>, features |-> 0]
      ELSE The({AfterFeatures(net, core) :
                  core \in {Features_forward(net.features_, 1,
                              [outcome |-> "running", received |-> <<>>, x |-> <<stem.t>>],
                              build)}})

\* The head_inputs and the head_outputs of select_sls_42 and select_sls_42b.
head_inputs(model) ==
  IF model = "select_sls_42b" THEN <<480, 960, 1024, 1280>> ELSE <<480, 960, 1024, 1024>>

head_outputs(model) == IF model = "select_sls_42b" THEN 1024 ELSE 1280

(***************************************************************************)
(* load_pretrained                                                         *)
(***************************************************************************)
\* std::getenv("FLAME_MODEL_PATH") of an unset variable
nullenv == "unset"

\* load_pretrained(model, archive_name) under the environment env.  path is
\* the path built (<<>>: none), loads the archives torch::load was called
\* on.  With the assertion compiled out, fs::path(nullptr) is undefined
\* behaviour.
load_pretrained(env, archive_name, build) ==
  IF env = nullenv
  THEN IF assert_false(build) = "aborted"
       THEN [outcome |-> "aborted", path |-> <<>>, loads |-> <<>>]
       ELSE [outcome |-> "undefined", path |-> <<>>, loads |-> <<>>]
  ELSE [outcome |-> "returned", path |-> <<env, archive_name>>,
        loads |-> <<<<env, archive_name>>>>]

(***************************************************************************)
(* The inputs of the model.                                                *)
(***************************************************************************)
Channels == {1, 3}

\* Channel orders of a colour image.  cv::imread delivers BGR.
BGR == <<"B", "G", "R">>

RGB == <<"R", "G", "B">>

\* The caller's image: every element differs from the others.
InputImage(depth, cn) ==
  [depth |-> depth, cn |-> cn, rows |-> InRows, cols |-> InCols,
   chan |-> IF cn = 3 THEN BGR ELSE <<"Y">>,
   pix |-> [k \in 1..(InRows * InCols * cn) |->
              RInt(10 * ((k - 1) \div cn) + 3 * ((k - 1) % cn) + 1)]]

ChainTargets == {"kUInt8", "kFloat32"}

TransformChoices ==
  {Resize(2, 2), CenterCrop(2, 2), Normalize(Mean, Stddev), ToTensor}
    \cup {ConvertImageDType(T) : T \in ChainTargets}

\* What an out-of-bounds read of the blob may find.
JunkValues == {RInt(0), RInt(1)}

NoMat == [buf |-> 0, r0 |-> 0, c0 |-> 0, rows |-> 0, cols |-> 0]

NoImage == [depth |-> 0, cn |-> 0, rows |-> 0, cols |-> 0, chan |-> <<>>, pix |-> <<>>]

\* The arguments the networks and blocks are constructed with.
LayerSizes == [1..4 -> 0..MaxBlocks]

DilationForStride == [1..3 -> BOOLEAN]

GroupChoices == {1, 2}

BaseWidthChoices == {32, 64}

PlaneChoices == {1, 3, 64}

\* A downsampler that is not nullptr.
SomeDownsampler == <<conv_1x1(64, 64, 2, 0), Norm(64)>>

\* The values of the environment variable FLAME_MODEL_PATH.
Environments == {nullenv, "/models"}

\* The ways a step of undefined behaviour can come out.
UndefinedOutcomes == {"crashed", "exception", "returned"}

NoCall == [name |-> "none"]

NoObject == [outcome |-> "none", type |-> "none"]

NoResult == [outcome |-> "none"]

(***************************************************************************)
(* The state machine: a Transformer is built with add, then one of its     *)
(* three entry points runs on the caller's image img.                      *)
(***************************************************************************)
VARIABLES
  transforms_,   \* Transformer::transforms_
  added,         \* the arguments of the calls of add, in call order
  heap,          \* the pixel buffers
  img,           \* the caller's cv::Mat
  input,         \* the image img held when it was handed over
  image,         \* the cv::Mat make_image returned
  tensor,        \* the tensor make_tensor returned
  applied,       \* indices of the stages whose transform was called, in order
  created,       \* indices of the stages whose create was called, in order
  op,            \* the entry point that ran
  pc,            \* "idle", "returned", "terminated" or "undefined"
  build,         \* how the program was built: [NDEBUG, zero_channels]
  FLAME_MODEL_PATH,  \* the environment variable, or nullenv
  call,          \* the constructor or function called last, with its arguments
  object,        \* the network or block under construction or constructed
  outcome,       \* "idle", "constructed", "returned", "aborted", "exception", ...
  result         \* what forward or load_pretrained left

imgvars == <<transforms_, added, heap, img, input, image, tensor, applied, created, op, pc>>

netvars == <<build, FLAME_MODEL_PATH, call, object, outcome, result>>

vars == <<imgvars, netvars>>

\* No network code has run.
NetIdle ==
  /\ call = NoCall
  /\ object = NoObject
  /\ outcome = "idle"
  /\ result = NoResult

Init ==
  /\ transforms_ = <<>>
  /\ added = <<>>
  /\ \E depth \in Depths, cn \in Channels :
       LET a == NewMat(<<>>, InputImage(depth, cn))
       IN  heap = a.heap /\ img = a.m /\ input = InputImage(depth, cn)
  /\ image = NoMat
  /\ tensor = NoTensor
  /\ applied = <<>>
  /\ created = <<>>
  /\ op = "none"
  /\ pc = "idle"
  /\ build = [NDEBUG |-> FALSE, zero_channels |-> FALSE]
  /\ FLAME_MODEL_PATH = nullenv
  /\ NetIdle

Add(t) ==
  /\ pc = "idle"
  /\ Len(transforms_) < MaxChain
  /\ transforms_' = add(transforms_, t)
  /\ added' = Append(added, t)
  /\ UNCHANGED <<heap, img, input, image, tensor, applied, created, op, pc>>
  /\ UNCHANGED netvars

\* transforms_.front() of an empty vector is undefined behaviour: the call
\* crashes, or goes on in a way the source does not determine.
FrontOfEmpty(name) ==
  /\ transforms_ = <<>>
  /\ op' = name
  /\ pc' \in {"terminated", "undefined"}
  /\ UNCHANGED <<transforms_, added, heap, img, input, image, tensor, applied, created>>

MakeImage ==
  /\ pc = "idle"
  /\ \/ FrontOfEmpty("make_image")
     \/ /\ transforms_ # <<>>
        /\ \E r \in {make_image(transforms_, heap, img)} :
               /\ heap' = r.heap
               /\ image' = IF r.ok THEN r.m ELSE NoMat
               /\ applied' = r.applied
               /\ pc' = IF r.ok THEN "returned" ELSE "terminated"
        /\ op' = "make_image"
        /\ UNCHANGED <<transforms_, added, img, input, tensor, created>>
  /\ UNCHANGED netvars

UpdateImage ==
  /\ pc = "idle"
  /\ \E r \in {update_image(transforms_, heap, img)} :
         /\ heap' = r.heap
         /\ img' = r.m
         /\ applied' = r.applied
         /\ pc' = IF r.ok THEN "returned" ELSE "terminated"
  /\ op' = "update_image"
  /\ UNCHANGED <<transforms_, added, input, image, tensor, created>>
  /\ UNCHANGED netvars

MakeTensor ==
  /\ pc = "idle"
  /\ \/ FrontOfEmpty("make_tensor")
     \/ /\ transforms_ # <<>>
        /\ \E junk \in JunkValues :
             \E r \in {make_tensor(transforms_, heap, img, junk)} :
                 /\ heap' = r.heap
                 /\ tensor' = r.tensor
                 /\ image' = IF r.ok THEN r.m ELSE NoMat
                 /\ applied' = r.applied
                 /\ created' = r.created
                 /\ pc' = IF r.ok THEN "returned" ELSE "terminated"
        /\ op' = "make_tensor"
        /\ UNCHANGED <<transforms_, added, img, input>>
  /\ UNCHANGED netvars

Next ==
  \/ \E t \in TransformChoices : Add(t)
  \/ MakeImage
  \/ UpdateImage
  \/ MakeTensor

Spec == Init /\ [][Next]_vars

(***************************************************************************)
(* The state machine of the networks: under a build and an environment, a  *)
(* network or a block is constructed; an SLS block constructed is then fed *)
(* a vector of tensors, a ResNet constructed is then loaded from its       *)
(* archive.                                                                *)
(***************************************************************************)
NetInit ==
  /\ transforms_ = <<>>
  /\ added = <<>>
  /\ heap = <<>>
  /\ img = NoMat
  /\ input = NoImage
  /\ image = NoMat
  /\ tensor = NoTensor
  /\ applied = <<>>
  /\ created = <<>>
  /\ op = "none"
  /\ pc = "idle"
  /\ build \in Builds
  /\ FLAME_MODEL_PATH \in Environments
  /\ NetIdle

\* A constructor ran and left r.
Construct(c, r) ==
  /\ call' = c
  /\ \E made \in {r} :
       /\ object' = made
       /\ outcome' = made.outcome
  /\ UNCHANGED <<build, FLAME_MODEL_PATH, result>>
  /\ UNCHANGED imgvars

\* Resnet<Block>{layer_sizes, classes, zero_init_residual, groups,
\* width_per_group, dilation_for_stride}
NewResnet(Block, layer_sizes, zero_init_residual, groups, dilation_for_stride) ==
  Construct([name |-> "Resnet", Block |-> Block, layer_sizes |-> layer_sizes,
             zero_init_residual |-> zero_init_residual, groups |-> groups,
             width_per_group |-> 64, dilation_for_stride |-> dilation_for_stride],
            ResnetImpl(Block, layer_sizes, 1000, zero_init_residual, groups, 64,
                       dilation_for_stride, build))

\* ResnetV2<Bottleneck>{layer_sizes, classes}
NewResnetV2(layer_sizes) ==
  Construct([name |-> "ResnetV2", Block |-> "Bottleneck", layer_sizes |-> layer_sizes],
            ResnetV2Impl(layer_sizes, 1000, build))

\* BasicBlock(inplanes, planes, stride, downsampler, groups, base_width,
\* dilation) and Bottleneck(...) on their own.
NewResidualBlock(Block, planes, stride, downsampler, groups, base_width, dilation) ==
  Construct([name |-> Block, inplanes |-> 64, planes |-> planes, stride |-> stride,
             downsampler |-> downsampler, groups |-> groups, base_width |-> base_width,
             dilation |-> dilation],
            LET r == NewBlock(Block, 64, planes, stride, downsampler, groups, base_width,
                              dilation, build)
            IN  [outcome |-> r.outcome, type |-> Block, block |-> r.obj])

\* SlsBlock(inplanes, skip, planes, outplanes, is_first, stride)
NewSlsBlock(skip, planes, is_first, stride) ==
  Construct([name |-> "SlsBlock", inplanes |-> 32, skip |-> skip, planes |-> planes,
             outplanes |-> 64, is_first |-> is_first, stride |-> stride],
            LET r == SlsBlockImpl(32, skip, planes, 64, is_first, stride, build)
            IN  [outcome |-> r.outcome, type |-> "SlsBlock", block |-> r.obj])

\* The vector of n tensors handed to forward: the input of the block, then
\* tensors of the skip's channels and of the size the first layer yields.
SlsInputs(block, n) ==
  [i \in 1..n |->
     IF i = 1 THEN Shape(block.inplanes, 8, 8)
     ELSE Shape(block.skip, ConvOut(8, block.conv[1][1]), ConvOut(8, block.conv[1][1]))]

\* block->forward(x) with x of n tensors
Forward(n) ==
  /\ outcome = "constructed"
  /\ object.type = "SlsBlock"
  /\ \E r \in {SlsBlockImpl_forward(object.block, SlsInputs(object.block, n), build)} :
       /\ result' = r
       /\ IF r.outcome = "undefined"
          THEN outcome' \in UndefinedOutcomes
          ELSE outcome' = r.outcome
  /\ call' = [name |-> "forward", size |-> n]
  /\ UNCHANGED <<build, FLAME_MODEL_PATH, object>>
  /\ UNCHANGED imgvars

\* select_sls_42(classes, false) and select_sls_42b(classes, false):
\* SelectSlsNet{head_inputs, head_outputs, classes, config}
NewSelectSlsNet(model, classes) ==
  Construct([name |-> model, classes |-> classes],
            SelectSlsNetImpl(head_inputs(model), head_outputs(model), classes, config_42,
                             build))

\* net->forward(x) with x an image of stem_inputs channels and of height and
\* width H
SelectSlsForward(H) ==
  /\ outcome = "constructed"
  /\ object.type = "SelectSlsNet"
  /\ \E r \in {SelectSlsNetImpl_forward(object, Shape(stem_inputs, H, H), build)} :
       /\ result' = r
       /\ IF r.outcome = "undefined"
          THEN outcome' \in UndefinedOutcomes
          ELSE outcome' = r.outcome
  /\ call' = [name |-> "SelectSlsNet.forward", H |-> H]
  /\ UNCHANGED <<build, FLAME_MODEL_PATH, object>>
  /\ UNCHANGED imgvars

\* The model resnet18 constructs: Resnet<BasicBlock> with layers {2, 2, 2, 2}.
IsResnet18(c) ==
  c.name = "Resnet" /\ c.Block = "BasicBlock" /\ c.layer_sizes = <<2, 2, 2, 2>>

\* load_pretrained(model, archive_name), as resnet18 calls it on the model
\* it constructed when pretrained is set.
LoadPretrained(archive_name) ==
  /\ outcome = "constructed"
  /\ IsResnet18(call)
  /\ \E r \in {load_pretrained(FLAME_MODEL_PATH, archive_name, build)} :
       /\ result' = r
       /\ IF r.outcome = "undefined"
          THEN outcome' \in UndefinedOutcomes
          ELSE outcome' = r.outcome
  /\ call' = [name |-> "load_pretrained", archive_name |-> archive_name]
  /\ UNCHANGED <<build, FLAME_MODEL_PATH, object>>
  /\ UNCHANGED imgvars

\* A run constructs one object, and then uses it.
NetNext ==
  \/ /\ outcome = "idle"
     /\ \E Block \in {"BasicBlock", "Bottleneck"}, layer_sizes \in LayerSizes,
           zero_init_residual \in BOOLEAN, groups \in GroupChoices,
           dilation_for_stride \in DilationForStride :
          NewResnet(Block, layer_sizes, zero_init_residual, groups, dilation_for_stride)
  \/ /\ outcome = "idle"
     /\ \E layer_sizes \in LayerSizes : NewResnetV2(layer_sizes)
  \/ /\ outcome = "idle"
     /\ \E Block \in {"BasicBlock", "Bottleneck"}, planes \in PlaneChoices,
           stride \in {1, 2}, downsampler \in {nullptr, SomeDownsampler},
           groups \in GroupChoices, base_width \in BaseWidthChoices, dilation \in {1, 2} :
          NewResidualBlock(Block, planes, stride, downsampler, groups, base_width, dilation)
  \/ /\ outcome = "idle"
     /\ \E skip \in {0, 64}, planes \in PlaneChoices, is_first \in BOOLEAN, stride \in {1, 2} :
          NewSlsBlock(skip, planes, is_first, stride)
  \/ /\ outcome = "idle"
     /\ \E model \in {"select_sls_42", "select_sls_42b"}, classes \in {0, 1000} :
          NewSelectSlsNet(model, classes)
  \/ \E n \in 0..MaxInputs : Forward(n)
  \/ \E H \in 1..MaxHeight : SelectSlsForward(H)
  \/ \E archive_name \in {"resnet_18_pretrained.pt"} : LoadPretrained(archive_name)

NetSpec == NetInit /\ [][NetNext]_vars

(***************************************************************************)
(* The state machine of the residual blocks: a ResNet is constructed, then *)
(* one of its blocks is fed a tensor.                                      *)
(***************************************************************************)
BlockInit ==
  /\ NetInit
  /\ FLAME_MODEL_PATH = nullenv

\* layer_k_[j]->forward(x) with x of the channels the block was built for
\* and of height and width H
BlockForward(k, j, H) ==
  /\ outcome = "constructed"
  /\ object.type = "Resnet"
  /\ k <= Len(object.layers)
  /\ j <= Len(object.layers[k])
  /\ \E r \in {IF object.Block = "Bottleneck"
               THEN BottleneckImpl_forward(object.layers[k][j],
                                           Shape(object.layers[k][j].inplanes, H, H))
               ELSE BasicBlockImpl_forward(object.layers[k][j],
                                           Shape(object.layers[k][j].inplanes, H, H))} :
       /\ result' = r
       /\ outcome' = r.outcome
  /\ call' = [name |-> "block_forward", layer |-> k, index |-> j, H |-> H]
  /\ UNCHANGED <<build, FLAME_MODEL_PATH, object>>
  /\ UNCHANGED imgvars

BlockNext ==
  \/ /\ outcome = "idle"
     /\ \E Block \in {"BasicBlock", "Bottleneck"}, layer_sizes \in LayerSizes,
           zero_init_residual \in BOOLEAN, groups \in GroupChoices,
           dilation_for_stride \in DilationForStride :
          NewResnet(Block, layer_sizes, zero_init_residual, groups, dilation_for_stride)
  \/ /\ outcome = "constructed"
     /\ \E k \in 1..4, j \in 1..MaxLoop, H \in 1..MaxHeight : BlockForward(k, j, H)

BlockSpec == BlockInit /\ [][BlockNext]_vars

(***************************************************************************)
(* Vocabulary of the properties.                                           *)
(***************************************************************************)
Indices(ts) == [i \in 1..Len(ts) |-> i]

ToTensorIndices(ts) == {i \in 1..Len(ts) : IsToTensor(ts[i])}

\* The stages that are no ToTensor, in chain order.
NonToTensorIndices(ts) == SelectSeq(Indices(ts), LAMBDA i : ~IsToTensor(ts[i]))

Max(S) == CHOOSE x \in S : \A y \in S : y <= x

Min(S) == CHOOSE x \in S : \A y \in S : x <= y

\* The heap and the header the caller's image had when it was handed over.
InitialHeap == NewMat(<<>>, input).heap

InitialMat == NewMat(<<>>, input).m

\* Element (c, r, x) of a tensor of sizes <<channels, rows, columns>>.
TensorAt(t, c, r, x) == t.elems[(c * t.sizes[2] + r) * t.sizes[3] + x + 1]

Returned(name) == op = name /\ pc = "returned"

Ran(name) == op = name /\ pc \in {"returned", "terminated"}

FloatDepths == {CV_16F, CV_32F, CV_64F}

(***************************************************************************)
(* C1.  Stated as claimed: in every run of make_tensor that returns, on a  *)
(* chain holding a ToTensor stage at any position (position 0 included),   *)
(* the transform of every stage that is no ToTensor has been called, in    *)
(* chain order, before the one materialization.                            *)
(***************************************************************************)
C1_DeferredPastAllStages ==
  (Returned("make_tensor") /\ ToTensorIndices(transforms_) # {})
    => /\ applied = NonToTensorIndices(transforms_)
       /\ Len(created) = 1

(***************************************************************************)
(* C2.  Stated as claimed, for the 3-channel images the claim names:       *)
(* ToTensor::create on a 3-channel image of integral storage returns a     *)
(* tensor holding the pixel values times 1/255, the colour channels in     *)
(* reverse order (element (c, r, x) is the image's (r, x, 2 - c) / 255).   *)
(***************************************************************************)
C2_IntegralScaledAndSwapped ==
  (op = "make_tensor" /\ pc # "idle" /\ transforms_ = <<ToTensor>>
     /\ input.depth \in IntegralDepths /\ input.cn = 3)
    => /\ pc = "returned"
       /\ tensor.sizes = <<input.cn, input.rows, input.cols>>
       /\ \A c \in 0..(input.cn - 1), r \in 0..(input.rows - 1),
             x \in 0..(input.cols - 1) :
            TensorAt(tensor, c, r, x) = RMul(PixAt(input, r, x, 2 - c), Scale)

(***************************************************************************)
(* C3.  Stated as claimed: when make_image has returned, the caller's      *)
(* image has the size, the storage type and the pixel values it had        *)
(* before the call.                                                        *)
(***************************************************************************)
C3_InputUnchanged ==
  Returned("make_image") => Image(heap, img) = input

(***************************************************************************)
(* C4.  Stated as claimed: on a chain with more than one ToTensor stage    *)
(* the create that make_tensor calls is that of the first ToTensor stage.  *)
(***************************************************************************)
C4_FirstToTensorCreates ==
  (Returned("make_tensor") /\ Cardinality(ToTensorIndices(transforms_)) > 1)
    => created = <<Min(ToTensorIndices(transforms_))>>

(***************************************************************************)
(* C4, amended.  On a chain with more than one ToTensor stage the create   *)
(* that make_tensor calls is that of the first stage when the first stage  *)
(* is a ToTensor, and that of the last ToTensor stage otherwise; no other  *)
(* create is called.                                                       *)
(***************************************************************************)
C4_FrontOrLastToTensorCreates ==
  (Ran("make_tensor") /\ Cardinality(ToTensorIndices(transforms_)) > 1)
    => /\ pc = "returned" =>
            created = <<IF IsToTensor(transforms_[1]) THEN 1
                        ELSE Max(ToTensorIndices(transforms_))>>
       /\ \A k \in 1..Len(created) :
            created[k] = IF IsToTensor(transforms_[1]) THEN 1
                         ELSE Max(ToTensorIndices(transforms_))

C4_Witness ==
  /\ Returned("make_tensor")
  /\ ~IsToTensor(transforms_[1])
  /\ ToTensorIndices(transforms_) = {2, 3}
  /\ created = <<3>>

(***************************************************************************)
(* C5.  A run of make_tensor on a non-empty chain never calls create more  *)
(* than once, and a run that returns has called it exactly once and        *)
(* returns the tensor that call made: the wrapped working image.           *)
(***************************************************************************)
C5_ExactlyOneCreate ==
  /\ Len(created) <= 1
  /\ Returned("make_tensor") =>
       /\ Len(created) = 1
       /\ tensor # NoTensor
       /\ tensor.buf = image.buf
       /\ tensor.sizes = <<MatChannels(heap, image), image.rows, image.cols>>

C5_Witness ==
  /\ Returned("make_tensor")
  /\ Cardinality(ToTensorIndices(transforms_)) = 2
  /\ Len(created) = 1

(***************************************************************************)
(* C6.  A run of make_tensor on a non-empty chain without ToTensor stage   *)
(* calls the transform of every stage once, in chain order, and then the   *)
(* create of a default-constructed ToTensor, and nothing else: the tensor  *)
(* is the materialization of the image the chain's transforms yield.       *)
(***************************************************************************)
C6_DefaultMaterialization ==
  (Returned("make_tensor") /\ ToTensorIndices(transforms_) = {})
    => /\ applied = Indices(transforms_)
       /\ created = <<0>>
       /\ \E junk \in JunkValues, ref \in {make_image(transforms_, InitialHeap, InitialMat)} :
            /\ ref.ok
            /\ \E c \in {ToTensor_create(ref.heap, ref.m, junk)} :
                 /\ c.ok
                 /\ tensor.sizes = c.tensor.sizes
                 /\ tensor.elems = c.tensor.elems
                 /\ Image(heap, image) = Image(c.heap, c.m)

C6_Witness ==
  /\ Returned("make_tensor")
  /\ Len(transforms_) = 3
  /\ \A i \in 1..3 : transforms_[i].kind \notin {"ToTensor", "Normalize"}
  /\ created = <<0>>
  /\ applied = <<1, 2, 3>>

(***************************************************************************)
(* C7.  The chain holds the arguments of the calls of add in call order,   *)
(* and a run of make_image or update_image that returns has called the     *)
(* transform of every stage exactly once, in chain order; a run that an    *)
(* exception ended has called a prefix of them.                            *)
(***************************************************************************)
C7_InsertionOrder ==
  /\ transforms_ = added
  /\ (Returned("make_image") \/ Returned("update_image"))
       => applied = Indices(transforms_)
  /\ (Ran("make_image") \/ Ran("update_image"))
       => /\ Len(applied) <= Len(transforms_)
          /\ \A k \in 1..Len(applied) : applied[k] = k

C7_Witness ==
  /\ Returned("make_image")
  /\ Len(transforms_) = 3
  /\ transforms_[1] # transforms_[2]
  /\ transforms_[2] # transforms_[3]
  /\ applied = <<1, 2, 3>>

SecondIsNoOp(t, once) ==
  once.ok =>
    /\ ConvertImageDType_transform_inplace(t, once.heap, once.m) = once
    /\ ConvertImageDType_transform(t, once.heap, once.m) = once

ConvertTwiceIsOnce(m) ==
  \A T \in ScalarTypes :
    /\ SecondIsNoOp(ConvertImageDType(T),
                    ConvertImageDType_transform_inplace(ConvertImageDType(T), heap, m))
    /\ SecondIsNoOp(ConvertImageDType(T),
                    ConvertImageDType_transform(ConvertImageDType(T), heap, m))

C10_ConvertTwiceIsOnce ==
  /\ transforms_ = <<>> => ConvertTwiceIsOnce(img)
  /\ (Returned("update_image") /\ Len(transforms_) <= 2) => ConvertTwiceIsOnce(img)
  /\ (Ran("update_image") /\ Len(transforms_) = 2 /\ transforms_[1] = transforms_[2]
        /\ transforms_[1].kind = "ConvertImageDType")
       => \E once \in {ConvertImageDType_transform_inplace(
                         transforms_[1], InitialHeap, InitialMat)} :
            /\ (pc = "returned") = once.ok
            /\ once.ok => Image(heap, img) = Image(once.heap, once.m)

C10_Witness ==
  /\ Returned("update_image")
  /\ transforms_ = <<ConvertImageDType("kFloat32"), ConvertImageDType("kFloat32")>>
  /\ input.depth = CV_8U
  /\ MatDepth(heap, img) = CV_32F
  /\ Image(heap, img).chan = RGB

(***************************************************************************)
(* C11.  ConvertImageDType multiplies the pixel values by 1/255 exactly    *)
(* when it converts into a floating point target type; a conversion into   *)
(* an integral target type multiplies by 1, and an image that already has  *)
(* the target type is returned as it is.  It holds of the factor the       *)
(* conversion is given, for every target type and input image, of the      *)
(* image either overload returns, and of the runs of update_image on a     *)
(* chain of one ConvertImageDType stage.                                   *)
(***************************************************************************)
FloatTypes == {"kFloat16", "kFloat32", "kFloat64"}

\* The factor the claim names for a conversion into T.
ClaimedFactor(T) == IF T \in FloatTypes THEN <<1, 255>> ELSE <<1, 1>>

\* im is what a conversion of from into depth by the factor f, followed by
\* the exchange of channels 0 and 2, yields.
ConvertedBy(im, from, depth, f) ==
  /\ im.depth = depth
  /\ im.rows = from.rows /\ im.cols = from.cols /\ im.cn = 3
  /\ \A r \in 0..(from.rows - 1), c \in 0..(from.cols - 1), ch \in 0..2 :
       PixAt(im, r, c, ch) = SaturateCast(RMul(PixAt(from, r, c, 2 - ch), f), depth)

ScalesAsClaimed(T, from, r) ==
  \E props \in {get_conversion_props(T, from.depth, RInt(1))} :
    /\ props.type # from.depth => props.alpha = ClaimedFactor(T)
    /\ (r.ok /\ props.type = from.depth) => Image(r.heap, r.m) = from
    /\ (r.ok /\ props.type # from.depth)
         => ConvertedBy(Image(r.heap, r.m), from, props.type, ClaimedFactor(T))

C11_ScaledExactlyIntoFloat ==
  /\ transforms_ = <<>> =>
       \A T \in ScalarTypes :
         /\ ScalesAsClaimed(T, input,
                            ConvertImageDType_transform(ConvertImageDType(T), heap, img))
         /\ ScalesAsClaimed(T, input,
                            ConvertImageDType_transform_inplace(ConvertImageDType(T), heap, img))
  /\ (Returned("update_image") /\ Len(transforms_) = 1
        /\ transforms_[1].kind = "ConvertImageDType")
       => ScalesAsClaimed(transforms_[1].type_, input, [heap |-> heap, m |-> img, ok |-> TRUE])

C11_Witness ==
  /\ Returned("update_image")
  /\ transforms_ = <<ConvertImageDType("kFloat32")>>
  /\ input.depth = CV_8U
  /\ input.cn = 3
  /\ MatDepth(heap, img) = CV_32F
  /\ PixAt(Image(heap, img), 0, 0, 0) = <<7, 255>>

(***************************************************************************)
(* C12.  For an image of W columns and H rows and every CenterCrop(w, h)   *)
(* with 0 < w <= W and 0 < h <= H, both overloads return, and the image    *)
(* they yield has h rows and w columns and holds the source's pixels from  *)
(* column floor((W-w)/2) and row floor((H-h)/2) on; the region lies inside *)
(* the source and the margins of an axis differ by at most one.            *)
(***************************************************************************)
CropsCentered(w, h, from, r) ==
  \E ox \in {(from.cols - w) \div 2}, oy \in {(from.rows - h) \div 2} :
    /\ r.ok
    /\ r.m.rows = h /\ r.m.cols = w
    /\ \E im \in {Image(r.heap, r.m)} :
         /\ im.rows = h /\ im.cols = w /\ im.cn = from.cn /\ im.depth = from.depth
         /\ \A y \in 0..(h - 1), x \in 0..(w - 1), ch \in 0..(from.cn - 1) :
              PixAt(im, y, x, ch) = PixAt(from, oy + y, ox + x, ch)
    /\ 0 <= ox /\ ox + w <= from.cols
    /\ 0 <= oy /\ oy + h <= from.rows
    /\ Abs((from.cols - w - ox) - ox) <= 1
    /\ Abs((from.rows - h - oy) - oy) <= 1

C12_CenterCropCentered ==
  /\ transforms_ = <<>> =>
       \A w \in 1..input.cols, h \in 1..input.rows :
         /\ CropsCentered(w, h, input, CenterCrop_transform(CenterCrop(w, h), heap, img))
         /\ CropsCentered(w, h, input,
                          CenterCrop_transform_inplace(CenterCrop(w, h), heap, img))
  /\ (Ran("update_image") /\ Len(transforms_) = 1 /\ transforms_[1].kind = "CenterCrop"
        /\ transforms_[1].width_ <= input.cols /\ transforms_[1].height_ <= input.rows)
       => CropsCentered(transforms_[1].width_, transforms_[1].height_, input,
                        [heap |-> heap, m |-> img, ok |-> pc = "returned"])

C12_Witness ==
  /\ Returned("update_image")
  /\ Len(transforms_) = 1
  /\ transforms_[1].kind = "CenterCrop"
  /\ img.cols < input.cols
  /\ img.rows = transforms_[1].height_
  /\ img.cols = transforms_[1].width_

(***************************************************************************)
(* C13.  For every source size (rows and columns chosen independently) and *)
(* every chain [Resize(r), CenterCrop(c)] with 0 < c <= r, make_image      *)
(* returns an image of c rows and c columns, of the source's depth and     *)
(* channel count.  The source is an image of a depth the interpolation of  *)
(* cv::resize handles.                                                     *)
(***************************************************************************)
ResizeDepths == {CV_8U, CV_16U, CV_16S, CV_32F, CV_64F}

\* The region of sh rows and sw columns at the corner of the caller's image.
SourceOfSize(sh, sw) == SubMat(img, [x |-> 0, y |-> 0, width |-> sw, height |-> sh])

YieldsSquare(c, depth, cn, r) ==
  /\ r.ok
  /\ r.m.rows = c /\ r.m.cols = c
  /\ \E im \in {Image(r.heap, r.m)} :
       /\ im.rows = c /\ im.cols = c /\ Len(im.pix) = c * c * cn
       /\ im.depth = depth /\ im.cn = cn

C13_ResizeThenCropSquare ==
  /\ (transforms_ = <<>> /\ input.depth \in ResizeDepths) =>
       \A sh \in 1..input.rows, sw \in 1..input.cols :
         \A r \in 1..MaxSide :
           \A c \in 1..r :
             YieldsSquare(c, input.depth, input.cn,
                          make_image(<<Resize(r, r), CenterCrop(c, c)>>, heap,
                                     SourceOfSize(sh, sw)))
  /\ (Ran("make_image") /\ Len(transforms_) = 2 /\ input.depth \in ResizeDepths
        /\ transforms_[1].kind = "Resize" /\ transforms_[2].kind = "CenterCrop"
        /\ transforms_[1].width_ = transforms_[1].height_
        /\ transforms_[2].width_ = transforms_[2].height_
        /\ transforms_[2].width_ <= transforms_[1].width_)
       => YieldsSquare(transforms_[2].width_, input.depth, input.cn,
                       [heap |-> heap, m |-> image, ok |-> pc = "returned"])

C13_Witness ==
  /\ Returned("make_image")
  /\ Len(transforms_) = 2
  /\ transforms_[1].kind = "Resize" /\ transforms_[2].kind = "CenterCrop"
  /\ input.rows # input.cols
  /\ image.rows = transforms_[2].height_
  /\ image.cols = transforms_[2].width_
  /\ image.rows = image.cols

(***************************************************************************)
(* Vocabulary of the properties of the networks.                           *)
(***************************************************************************)
\* A network of the named assemblers has been constructed.
Assembled == outcome = "constructed" /\ call.name \in {"Resnet", "ResnetV2"}

\* The blocks of the constructed network, as <<stage, position>>.
BlockPositions ==
  {p \in (1..4) \X (1..MaxLoop) :
     p[1] <= Len(object.layers) /\ p[2] <= Len(object.layers[p[1]])}

BlockAt(p) == object.layers[p[1]][p[2]]

(***************************************************************************)
(* C14.  Stated as claimed: for every layer_sizes = (n1, n2, n3, n4) with  *)
(* each ni >= 1, stage i of the network the ResNet assembler and the       *)
(* ResNet-V2 assembler construct holds exactly ni blocks.                  *)
(***************************************************************************)
C14_StageHoldsItsBlocks ==
  (Assembled /\ \A i \in 1..4 : call.layer_sizes[i] >= 1)
    => \A i \in 1..4 : Len(object.layers[i]) = call.layer_sizes[i]

(***************************************************************************)
(* C15.  In every network the ResNet and the ResNet-V2 assembler build,    *)
(* whatever layer_sizes, block type and dilation flags, the first block of *)
(* a stage has a downsampling shortcut whenever the stride of the stage is *)
(* not 1 or the output channels of the stage (planes x Block::expansion)   *)
(* differ from the input channels it is given, and every block without a   *)
(* shortcut has stride 1 and as many input as output channels.  It holds   *)
(* of the blocks of a construction that did not complete as well.          *)
(***************************************************************************)
\* The object is, or was to become, a network of the named assemblers.
IsNetwork == object.type \in {"Resnet", "ResnetV2"}

\* The stride argument of the make_layer call of stage k.
StageStride(k) ==
  IF object.type = "ResnetV2" THEN ResnetV2_layer_stride[k] ELSE Resnet_layer_stride[k]

OutChannels(b) == b.planes * Expansion(b.type)

C15_ShortcutWhereShapeChanges ==
  IsNetwork =>
    \A p \in BlockPositions :
      /\ (p[2] = 1 /\ (StageStride(p[1]) # 1 \/ OutChannels(BlockAt(p)) # BlockAt(p).inplanes))
           => BlockAt(p).downsampler_ # nullptr
      /\ (p[2] = 1 /\ (BlockAt(p).stride # 1 \/ OutChannels(BlockAt(p)) # BlockAt(p).inplanes))
           => BlockAt(p).downsampler_ # nullptr
      /\ BlockAt(p).downsampler_ = nullptr
           => /\ BlockAt(p).stride = 1
              /\ BlockAt(p).inplanes = OutChannels(BlockAt(p))

\* A ResNet of bottlenecks whose second stage is dilated: its first block
\* has stride 1 and a shortcut for the change of channels alone, the block
\* after it has none.
C15_Witness ==
  /\ outcome = "constructed"
  /\ object.type = "Resnet"
  /\ call.Block = "Bottleneck"
  /\ call.dilation_for_stride[1]
  /\ Len(object.layers[2]) = 2
  /\ BlockAt(<<2, 1>>).stride = 1
  /\ BlockAt(<<2, 1>>).downsampler_ # nullptr
  /\ BlockAt(<<2, 2>>).downsampler_ = nullptr
  /\ BlockAt(<<2, 2>>).inplanes = 512

(***************************************************************************)
(* C16.  Stated as claimed: in a ResNet constructed with                   *)
(* zero_init_residual true the weight of the last normalization layer of   *)
(* every residual block is zero, for both block types; in one constructed  *)
(* with zero_init_residual false no block's last normalization weight is   *)
(* zero.                                                                   *)
(***************************************************************************)
LastNorm(b) == b.norms[Len(b.norms)]

C16_LastNormZeroed ==
  (outcome = "constructed" /\ call.name = "Resnet")
    => \A p \in BlockPositions :
         (LastNorm(BlockAt(p)).weight = 0) <=> call.zero_init_residual

(***************************************************************************)
(* C17.  Stated as claimed: SlsBlock::forward returns when it is handed    *)
(* exactly one tensor and the block is a first block, or exactly two and   *)
(* it is not; on every other number of tensors it ends in the assertion,   *)
(* and no layer of the block has been evaluated.                           *)
(***************************************************************************)
C17_InputCountAsserted ==
  (call.name = "forward" /\ InvalidInputSize(object.block.is_first_, call.size))
    => /\ outcome = "aborted"
       /\ result.evaluated = <<>>

(***************************************************************************)
(* C18.  Stated as claimed: load_pretrained ends in the assertion whenever *)
(* FLAME_MODEL_PATH is unset, having built no archive path and loaded no   *)
(* archive; when the variable is set it returns, having loaded the one     *)
(* archive at root path + archive name.                                    *)
(***************************************************************************)
C18_FailsHardWhenUnset ==
  call.name = "load_pretrained" =>
    IF FLAME_MODEL_PATH = nullenv
    THEN /\ outcome = "aborted"
         /\ result.path = <<>>
         /\ result.loads = <<>>
    ELSE /\ outcome = "returned"
         /\ result.path = <<FLAME_MODEL_PATH, call.archive_name>>
         /\ result.loads = <<result.path>>

(***************************************************************************)
(* C19.  Stated as claimed: the construction of a Bottleneck whose width   *)
(* planes x (base_width / 64) x groups truncates to zero or less, and of   *)
(* an SLS block whose planes / 2 is zero or less, ends in an assertion.    *)
(***************************************************************************)
\* The construction called for a convolution of no channels, or fewer.
ZeroChannels ==
  \/ /\ call.name = "Bottleneck"
     /\ BottleneckWidth(call.planes, call.base_width, call.groups) <= 0
  \/ /\ call.name = "SlsBlock"
     /\ TruncDiv(call.planes, 2) <= 0

C19_ZeroChannelsAsserted == ZeroChannels => outcome = "aborted"

(***************************************************************************)
(* C20.  Stated as claimed: the construction of a BasicBlock with          *)
(* groups # 1, with base_width # 64 or with dilation > 1 ends in the       *)
(* assertion; with groups = 1, base_width = 64 and dilation <= 1 it        *)
(* completes, having registered conv1, bn1, conv2, bn2 and relu, and the   *)
(* downsampler exactly when one was given.                                 *)
(***************************************************************************)
C20_Unsupported == call.groups # 1 \/ call.base_width # 64 \/ call.dilation > 1

C20_BasicBlockAsserted ==
  call.name = "BasicBlock" =>
    IF C20_Unsupported
    THEN outcome = "aborted"
    ELSE /\ outcome = "constructed"
         /\ object.block.modules =
              <<"conv1", "bn1", "conv2", "bn2", "relu">>
                \o (IF call.downsampler # nullptr THEN <<"downsample">> ELSE <<>>)

(***************************************************************************)
(* C22.  Stated as claimed: when make_tensor has returned on a non-empty   *)
(* chain, the storage the tensor refers to is owned by an image that is    *)
(* still alive.  The images alive after the return are the caller's: the   *)
(* working image is a local of make_tensor, and from_blob takes no         *)
(* ownership of the storage it wraps.                                      *)
(***************************************************************************)
\* The buffers that an image alive after make_tensor has returned owns.
LiveBuffers == {img.buf}

C22_TensorStorageLive ==
  (Returned("make_tensor") /\ transforms_ # <<>>) => tensor.buf \in LiveBuffers

(***************************************************************************)
(* C23.  Stated as claimed, for working images of 32-bit float storage     *)
(* (the storage the tensor is read as): when make_tensor has returned and  *)
(* the last stage that is no ToTensor is a CenterCrop applied in place     *)
(* that made the working image a proper region of its buffer, the tensor   *)
(* has the sizes (channels, rows, columns) of the cropped image and its    *)
(* element (c, r, x) is the cropped image's value at row r, column x,      *)
(* channel c.                                                              *)
(***************************************************************************)
\* The last stage of the chain that is no ToTensor (0: there is none).
LastTransforming(ts) ==
  IF ToTensorIndices(ts) = DOMAIN ts THEN 0 ELSE Max(DOMAIN ts \ ToTensorIndices(ts))

\* The header m covers less than the buffer it refers to.
ProperRegion(m) == m.rows < heap[m.buf].rows \/ m.cols < heap[m.buf].cols

CroppedInPlaceLast ==
  /\ Returned("make_tensor")
  /\ LastTransforming(transforms_) >= LoopStart
  /\ transforms_[LastTransforming(transforms_)].kind = "CenterCrop"
  /\ ProperRegion(image)
  /\ MatDepth(heap, image) = CV_32F

C23_CroppedPixelsInTensor ==
  CroppedInPlaceLast =>
    /\ tensor.sizes = <<MatChannels(heap, image), image.rows, image.cols>>
    /\ \A c \in 0..(MatChannels(heap, image) - 1), r \in 0..(image.rows - 1),
          x \in 0..(image.cols - 1) :
         TensorAt(tensor, c, r, x) = PixAt(Image(heap, image), r, x, c)

(***************************************************************************)
(* C28.  Stated as claimed: on a Transformer to which no transform has     *)
(* been added, make_image returns the input unchanged, make_tensor returns *)
(* the default materialization of the input, and update_image returns and  *)
(* leaves the image unchanged: no run reads a first transform that does    *)
(* not exist.                                                              *)
(***************************************************************************)
C28_EmptyChainSafe ==
  (transforms_ = <<>> /\ op # "none")
    => /\ pc = "returned"
       /\ Image(heap, img) = input
       /\ op = "make_image" => Image(heap, image) = input
       /\ op = "make_tensor" => created = <<0>>

(***************************************************************************)
(* C30.  For every non-empty chain and every input image, make_image       *)
(* returns exactly when update_image on a copy of the same input returns,  *)
(* and the image it returns then equals the one update_image leaves: in    *)
(* rows and columns, storage type, channel count, channel order and pixel  *)
(* values.  A run that an exception ended has called the same stages in    *)
(* both.                                                                   *)
(***************************************************************************)
SameAsUpdateImage(u) ==
  /\ (pc = "returned") = u.ok
  /\ applied = u.applied
  /\ u.ok => Image(heap, image) = Image(u.heap, u.m)

C30_MakeImageIsUpdateImage ==
  (Ran("make_image") /\ transforms_ # <<>>)
    => SameAsUpdateImage(update_image(transforms_, InitialHeap, InitialMat))

\* A chain whose front stage makes a new matrix in make_image and works in
\* place in update_image, on an image of integral storage.
C30_Witness ==
  /\ Returned("make_image")
  /\ Len(transforms_) = 3
  /\ transforms_[1].kind = "Normalize"
  /\ transforms_[2].kind = "CenterCrop"
  /\ input.depth = CV_8U
  /\ image.buf # img.buf
  /\ Image(heap, image) = Image(update_image(transforms_, InitialHeap, InitialMat).heap,
                                update_image(transforms_, InitialHeap, InitialMat).m)

(***************************************************************************)
(* C24.  Stated as claimed: every call of make_layer with blocks >= 0, in  *)
(* the ResNet and in the ResNet-V2 assembler, terminates and returns a     *)
(* layer of exactly blocks blocks.                                         *)
(***************************************************************************)
\* The blocks argument of the make_layer call of stage k.
BlocksAsked(k) ==
  IF call.name = "ResnetV2" THEN ResnetV2_layer_blocks(call.layer_sizes)[k]
  ELSE call.layer_sizes[k]

C24_MakeLayerTerminates ==
  call.name \in {"Resnet", "ResnetV2"}
    => /\ outcome # "diverged"
       /\ \A k \in 1..Len(object.layers) :
            (k < Len(object.layers) \/ outcome = "constructed")
              => Len(object.layers[k]) = BlocksAsked(k)

(***************************************************************************)
(* C25.  In every network the ResNet assembler (either block type) and the *)
(* ResNet-V2 assembler construct from layer_sizes with each entry >= 1,    *)
(* the input channels of every block are the output channels (planes x     *)
(* Block::expansion) of the block built just before it, those of the very  *)
(* first block are the 64 outputs of the first convolution, and the input  *)
(* width of the classifier is the output channels of the last block.       *)
(***************************************************************************)
\* The position of the block built just before the block at p (<<0, 0>>:
\* p is the first block of the network).
Before(p) ==
  IF p[2] > 1 THEN <<p[1], p[2] - 1>>
  ELSE IF p[1] > 1 THEN <<p[1] - 1, Len(object.layers[p[1] - 1])>>
  ELSE <<0, 0>>

\* The output channels of the block built just before the block at p.
ChannelsBefore(p) ==
  IF Before(p) = <<0, 0>> THEN first_conv_outputs ELSE OutChannels(BlockAt(Before(p)))

\* The classifier of the network.
Classifier == IF object.type = "ResnetV2" THEN object._fc ELSE object.fc_

C25_ChannelsChained ==
  (Assembled /\ \A k \in 1..4 : call.layer_sizes[k] >= 1)
    => /\ \A p \in BlockPositions :
            /\ BlockAt(p).inplanes = ChannelsBefore(p)
            /\ BlockAt(p).convs[1].in = ChannelsBefore(p)
            /\ BlockAt(p).downsampler_ # nullptr
                 => /\ BlockAt(p).downsampler_[1].in = ChannelsBefore(p)
                    /\ BlockAt(p).downsampler_[1].out = OutChannels(BlockAt(p))
            /\ BlockAt(p).convs[Len(BlockAt(p).convs)].out = OutChannels(BlockAt(p))
       /\ Classifier.in = OutChannels(BlockAt(<<4, Len(object.layers[4])>>))

C25_Witness ==
  /\ Assembled
  /\ call.name = "Resnet"
  /\ call.Block = "Bottleneck"
  /\ call.layer_sizes = <<2, 1, 2, 1>>
  /\ BlockAt(<<1, 1>>).inplanes = 64
  /\ BlockAt(<<1, 2>>).inplanes = 256
  /\ BlockAt(<<2, 1>>).inplanes = 256
  /\ BlockAt(<<3, 1>>).inplanes = 512
  /\ BlockAt(<<4, 1>>).inplanes = 1024
  /\ object.fc_.in = 2048

(***************************************************************************)
(* C26.  For every block the ResNet assembler built (BasicBlock or         *)
(* Bottleneck, of stride s in {1, 2} and of any dilation) and every input  *)
(* of height and width H >= 1, the main path and the shortcut path         *)
(* (identity, or the 1x1 convolution of stride s and padding 0) of forward *)
(* leave the same channel count, planes x expansion, and the same height   *)
(* and width, floor((H - 1) / s) + 1.                                      *)
(***************************************************************************)
\* The block forward ran on.
Fed == object.layers[call.layer][call.index]

\* The shape the claim gives both paths.
ClaimedShape ==
  Shape(OutChannels(Fed), ((call.H - 1) \div Fed.stride) + 1,
        ((call.H - 1) \div Fed.stride) + 1)

C26_PathsAgree ==
  call.name = "block_forward"
    => /\ outcome = "returned"
       /\ Fed.stride \in {1, 2}
       /\ result.out = ClaimedShape
       /\ result.residual = ClaimedShape

C26_Witness ==
  /\ call.name = "block_forward"
  /\ Fed.type = "Bottleneck"
  /\ Fed.stride = 2
  /\ Fed.dilation = 2
  /\ Fed.downsampler_ # nullptr
  /\ call.H = 3
  /\ result.out = Shape(Fed.planes * 4, 2, 2)
  /\ result.residual = result.out

(***************************************************************************)
(* C27.  Stated as claimed: for every SLS block of planes >= 1, the        *)
(* concatenation forward feeds to the sixth layer has the channel count    *)
(* the sixth layer was built for.                                          *)
(***************************************************************************)
\* forward got as far as the sixth layer.
SixthLayerFed ==
  /\ call.name = "forward"
  /\ Len(result.evaluated) = 6

C27_ConcatenationFitsSixthLayer ==
  (SixthLayerFed /\ object.block.planes >= 1)
    => result.cat.channels = object.block.conv[6][1].in

(***************************************************************************)
(* C21.  Stated as claimed: in SelectSlsNet::forward over the config_42    *)
(* features, started from a list of one tensor, every SLS block is handed  *)
(* a list of a size it accepts (one tensor for a first block, two          *)
(* otherwise) and forward does not end at the assertion 'Invalid tensor    *)
(* input size!'.                                                           *)
(***************************************************************************)
C21_ListSizesAccepted ==
  call.name = "SelectSlsNet.forward"
    => /\ outcome # "aborted"
       /\ \A i \in 1..Len(result.received) :
            ~InvalidInputSize(object.features_[i].is_first_, result.received[i])

(***************************************************************************)
(* C29.  In the networks select_sls_42 and select_sls_42b construct from   *)
(* config_42, the input planes of each block are the output planes of the  *)
(* block before it (the 32 outputs of the stem for the first), the skip of *)
(* each block that is not a first block is the output planes of the        *)
(* nearest first block before it, and the first input of the head (480) is *)
(* the output planes of the last block.                                    *)
(***************************************************************************)
IsSelectSlsNet == outcome = "constructed" /\ object.type = "SelectSlsNet"

\* The output planes of what feeds block i: the stem, or the block before.
PlanesBefore(i) ==
  IF i = 1 THEN object.stem_[1].out ELSE object.features_[i - 1].outplanes

\* The nearest first block before block i (0: none).
NearestFirstBefore(i) ==
  IF \E j \in 1..(i - 1) : object.features_[j].is_first_
  THEN Max({j \in 1..(i - 1) : object.features_[j].is_first_})
  ELSE 0

C29_Config42Chained ==
  IsSelectSlsNet
    => /\ Len(object.features_) = 6
       /\ \A i \in 1..Len(object.features_) :
            /\ object.features_[i].inplanes = PlanesBefore(i)
            /\ object.features_[i].conv[1][1].in = PlanesBefore(i)
            /\ object.features_[i].conv[6][1].out = object.features_[i].outplanes
            /\ ~object.features_[i].is_first_
                 => /\ NearestFirstBefore(i) # 0
                    /\ object.features_[i].skip
                         = object.features_[NearestFirstBefore(i)].outplanes
       /\ object.head_[1][1].in = 480
       /\ object.head_[1][1].in = object.features_[Len(object.features_)].outplanes

C29_Witness ==
  /\ IsSelectSlsNet
  /\ call.name = "select_sls_42b"
  /\ object.features_[1].inplanes = 32
  /\ object.features_[4].is_first_ = FALSE
  /\ object.features_[4].skip = 144
  /\ object.features_[3].outplanes = 144
  /\ object.features_[6].outplanes = 480
  /\ object.head_[1][1].in = 480

====
